---- MODULE Spec2Model ----
(***************************************************************************)
(* A state-machine model of dataselect 3.17 (src/src/dataselect.c): the    *)
(* ingest of Mini-SEED records into a trace list with per-segment record   *)
(* maps (readfiles), overlap pruning (prunetraces, findcoverage,           *)
(* trimtrace), reconciliation of segment times (reconcile_tracetimes) and  *)
(* the write pass (writetraces, trimrecord, sortrecmap).                   *)
(*                                                                         *)
(* Times are hptime_t ticks, HPTMODULUS ticks per second.  A data record   *)
(* on disk is a record [chan, qual, samprate, starttime, samplecnt, enc];  *)
(* its samples are numbered 1..samplecnt.  A RecordMap is the sequence of  *)
(* its Record entries from first to last; the linked representation is     *)
(* kept where sortrecmap relinks it.                                       *)
(***************************************************************************)
EXTENDS Integers, Sequences, FiniteSets, TLC

VARIABLES
  prunedata,      \* "0" none, "r" record level, "s" sample level, "e" edges only
  bestquality,    \* TRUE unless -E
  timetol,        \* -1 = default (half a sample period), else seconds (-tt)
  starttime,      \* global start time (-ts) or HPTERROR
  endtime,        \* global end time (-te) or HPTERROR
  splitboundary,  \* "0" none, "d", "h", "m"
  selections,     \* sequence of selection entries [pat, timewindows]
  stagelength,    \* capacity of the record staging buffer (-sb), in records
  infile,         \* the data records the input files hold, in file order
  fpos,           \* number of data records readfiles has read
  stageoffset,    \* number of records copied to the staging buffer
  stagefull,      \* staging buffer full flag
  mstl,           \* the MSTraceList: sequence of MSTraceID
  phase,          \* position of main(): "read", "prune", "reconcile", "write",
                  \* "emit" (in the loop over the write lists), "done"
  written,        \* the records emitted by writetraces, in order
  recordbuf,      \* contents of the global record buffer
  sortin,         \* sortrecmap study: the RecordMap handed to sortrecmap
  sortout,        \* sortrecmap study: the RecordMap it leaves
  outputfile,     \* TRUE when a single output file is given (-o)
  replaceinput,   \* TRUE when the input files are replaced (-rep)
  fault,          \* the I/O operation that fails in this run: [op, at]
  run,            \* 1 in a run on the input files, 2 in a run on its output
  wid,            \* writetraces: the MSTraceID the write loop is at
  errflag,        \* writetraces: 0 none, 1 fatal, 2 skip the rest of this ID
  infp,           \* TRUE when the input file is open for reading
  totalrecsout,   \* number of records written
  totalbytesout,  \* number of bytes written
  replaced,       \* the records written to the replaced input file
  exitcode,       \* exit code of main(), -1 while it runs
  wlog,           \* writetraces: what was done with each Record of the lists
  archiveroot,    \* the archives: sequence of DataStream
  ds_maxopenfiles,   \* dsarchive.c: maximum number of open files
  ds_openfilecount,  \* dsarchive.c: number of files ds_openfile has open
  curtime,        \* the clock, time(NULL)
  fdtable,        \* the open archive descriptors: set of [fd, file]
  arfiles,        \* the records written to archive files: [file, bytes]
  dscall          \* outcomes of the ds_streamproc calls for the last record

vars == <<prunedata, bestquality, timetol, starttime, endtime, splitboundary,
          selections, stagelength, infile, fpos, stageoffset, stagefull,
          mstl, phase, written, recordbuf, sortin, sortout,
          outputfile, replaceinput, fault, run, wid, errflag, infp, totalrecsout,
          totalbytesout, replaced, exitcode, wlog, archiveroot, ds_maxopenfiles,
          ds_openfilecount, curtime, fdtable, arfiles, dscall>>

\* What a run does not change: the options, the input files, the failing
\* operation and which run it is.
cfgvars == <<prunedata, bestquality, timetol, starttime, endtime, splitboundary,
             selections, stagelength, infile, outputfile, replaceinput, fault,
             run>>

sortvars == <<sortin, sortout>>

\* State of the write pass besides the output file and the record buffer.
wrvars == <<wid, errflag, infp, totalrecsout, totalbytesout, replaced, exitcode,
            wlog>>

\* State of the archives (dsarchive.c) and of the files they write.
dsvars == <<archiveroot, ds_maxopenfiles, ds_openfilecount, curtime, fdtable,
            arfiles, dscall>>

-----------------------------------------------------------------------------
(* Time base and sentinels (libmseed.h)                                    *)

HPTMODULUS == 1000000

\* libmseed's HPTERROR is -2145916800000000; the model keeps its role (a
\* value no data time takes) within TLC's integer range.
HPTERROR == -2145916800

Sec(n) == n * HPTMODULUS

Abs(x) == IF x < 0 THEN -x ELSE x

Min2(a, b) == IF a < b THEN a ELSE b

Max2(a, b) == IF a > b THEN a ELSE b

Last(s) == s[Len(s)]

-----------------------------------------------------------------------------
(* Bounds of the model                                                     *)

MaxRecs == 3        \* records in the input files of a pruning run
MaxStart == 2       \* latest record start in a pruning run, seconds
MaxCnt == 2         \* most samples in a record of a pruning run
UserTimeTol == 1    \* the -tt value tried besides the default, seconds
MaxSortLen == 5     \* longest RecordMap handed to sortrecmap
MaxSortKey == 2     \* largest start time in the sortrecmap study, ticks

-----------------------------------------------------------------------------
(* Data records: the codec's view (libmseed)                               *)

\* Sample period in ticks: (hptime_t)(HPTMODULUS / samprate), 0 for rate 0.
HpDelta(samprate) == IF samprate # 0 THEN HPTMODULUS \div samprate ELSE 0

\* Time tolerance in ticks for a given sample period.
HpTimeTol(hpdelta) == IF timetol = -1 THEN hpdelta \div 2 ELSE HPTMODULUS * timetol

\* msr_endtime(): time of the last sample,
\* starttime + (hptime_t)((samplecnt - 1) / samprate * HPTMODULUS + 0.5).
msr_endtime(msr) ==
  IF msr.samprate > 0 /\ msr.samplecnt > 0
    THEN msr.starttime +
         (2 * (msr.samplecnt - 1) * HPTMODULUS + msr.samprate) \div (2 * msr.samprate)
    ELSE msr.starttime

\* MS_ISRATETOLERABLE(A,B): |1 - A/B| < 0.0001
MS_ISRATETOLERABLE(a, b) == b # 0 /\ 10000 * Abs(b - a) < Abs(b)

\* Encodings trimrecord can repack, and one it cannot.
SupportedEncodings == {"INT16", "INT32", "FLOAT32", "FLOAT64", "STEIM1", "STEIM2"}

Msr(chan, qual, samprate, start, cnt, enc, b1000) ==
  [chan |-> chan, qual |-> qual, samprate |-> samprate, starttime |-> start,
   samplecnt |-> cnt, encoding |-> enc, Blkt1000 |-> b1000, reclen |-> 512,
   dataok |-> TRUE]

\* The record with a data section that cannot be decoded.
Corrupt(msr) == [msr EXCEPT !.dataok = FALSE]

-----------------------------------------------------------------------------
(* Selections (libmseed): an entry is [pat, timewindows], pat = "*" matches   *)
(* every source name, a time window is [starttime, endtime].                 *)

GlobMatch(chan, pat) == pat = "*" \/ pat = chan

\* The time-window test of ms_matchselect().
WindowMatches(w, s, e) ==
  /\ ~ (s # HPTERROR /\ w.starttime # HPTERROR /\
        (s < w.starttime /\ ~ (s <= w.starttime /\ e >= w.starttime)))
  /\ ~ (e # HPTERROR /\ w.endtime # HPTERROR /\
        (e > w.endtime /\ ~ (s <= w.endtime /\ e >= w.endtime)))

\* Index of the first window of tw, from index i on, that matches; 0 if none.
RECURSIVE FirstWindow(_, _, _, _)
FirstWindow(tw, i, s, e) ==
  IF i > Len(tw) THEN 0
  ELSE IF WindowMatches(tw[i], s, e) THEN i
  ELSE FirstWindow(tw, i + 1, s, e)

\* ms_matchselect(): the first entry, from entry sp on, that matches the
\* source name and has a matching time window: [sp, stp], sp = 0 if none.
RECURSIVE ms_matchselect(_, _, _, _, _)
ms_matchselect(sels, sp, chan, s, e) ==
  IF sp = 0 \/ sp > Len(sels) THEN [sp |-> 0, stp |-> 0]
  ELSE LET w == IF GlobMatch(chan, sels[sp].pat)
                  THEN FirstWindow(sels[sp].timewindows, 1, s, e) ELSE 0
       IN IF w # 0 THEN [sp |-> sp, stp |-> w]
          ELSE ms_matchselect(sels, sp + 1, chan, s, e)

-----------------------------------------------------------------------------
(* findselectlimits(): joint selection limits of a record                    *)

\* The inner loop over the time windows of one entry, from window i on.
\* Returns [rec, done]; done = TRUE is the shortcut return.
RECURSIVE fsl_windows(_, _, _, _, _)
fsl_windows(tw, i, s, e, rec) ==
  IF i = 0 \/ i > Len(tw) THEN [rec |-> rec, done |-> FALSE]
  ELSE LET w == tw[i] IN
    IF (s < w.starttime /\ ~ (s <= w.starttime /\ e >= w.starttime))
      THEN fsl_windows(tw, i + 1, s, e, rec)
    ELSE IF (e > w.endtime /\ ~ (s <= w.endtime /\ e >= w.endtime))
      THEN fsl_windows(tw, i + 1, s, e, rec)
    ELSE
      LET r1 == IF rec.selectstart = HPTERROR \/ rec.selectstart > w.starttime
                  THEN [rec EXCEPT !.selectstart = w.starttime] ELSE rec
          r2 == IF r1.selectend = HPTERROR \/ r1.selectend < w.endtime
                  THEN [r1 EXCEPT !.selectend = w.endtime] ELSE r1
      IN IF r2.starttime >= r2.selectstart /\ r2.endtime <= r2.selectend
           THEN [rec |-> r2, done |-> TRUE]
           ELSE fsl_windows(tw, i + 1, s, e, r2)

RECURSIVE findselectlimits(_, _, _, _, _, _)
findselectlimits(sels, select, chan, s, e, rec) ==
  LET m == ms_matchselect(sels, select, chan, s, e) IN
  IF m.sp = 0 THEN rec
  ELSE LET r == fsl_windows(sels[m.sp].timewindows, m.stp, s, e, rec) IN
       IF r.done THEN r.rec
       ELSE findselectlimits(sels, m.sp + 1, chan, s, e, r.rec)

-----------------------------------------------------------------------------
(* readfiles(): the ingest filters                                           *)

\* A start time test that rejects every record starting before starttime,
\* also one that contains it.
StartTimeOKStrict(recstarttime, recendtime) ==
  ~ ((starttime # HPTERROR) /\ recstarttime < starttime)

\* Record matches start time criteria: starts after or contains starttime.
StartTimeOK(recstarttime, recendtime) ==
  ~ ((starttime # HPTERROR) /\
     (recstarttime < starttime /\
      ~ (recstarttime <= starttime /\ recendtime >= starttime)))

\* Record matches end time criteria: ends before or contains endtime.
EndTimeOK(recstarttime, recendtime) ==
  ~ ((endtime # HPTERROR) /\
     (recendtime > endtime /\
      ~ (recstarttime <= endtime /\ recendtime >= endtime)))

\* The record passes every filter that readfiles applies before mstl_addmsr.
Admitted(msr) ==
  LET rs == msr.starttime
      re == msr_endtime(msr)
  IN /\ StartTimeOK(rs, re)
     /\ EndTimeOK(rs, re)
     /\ (selections # <<>> => ms_matchselect(selections, 1, msr.chan, rs, re).sp # 0)

-----------------------------------------------------------------------------
(* The trace list (libmseed MSTraceList) and mstl_addmsr()                  *)
(*                                                                         *)
(* MSTraceID  = [chan, dataquality, segs, haslist, list]                   *)
(*   list is the write list hung on id->prvtptr by writetraces, haslist    *)
(*   says whether it is allocated.                                         *)
(* MSTraceSeg = [starttime, endtime, samprate, hasmap, recmap]             *)
(*   recmap is the RecordMap hung on seg->prvtptr, hasmap says whether it  *)
(*   is allocated.                                                         *)

ChanOrd(chan) == CASE chan = "BHE" -> 1 [] chan = "BHZ" -> 2 [] OTHER -> 3

\* Alphabetical order of the quality letters in a source name.
QualOrd(q) == CASE q = "D" -> 1 [] q = "M" -> 2 [] q = "Q" -> 3 [] q = "R" -> 4 [] OTHER -> 0

\* Trace IDs are kept by source name; the quality is part of the name only
\* when mstl_addmsr is called with its dataquality flag (bestquality).
IdKey(chan, qual) == 10 * ChanOrd(chan) + (IF bestquality THEN QualOrd(qual) ELSE 0)

InsertAt(s, i, x) == SubSeq(s, 1, i - 1) \o <<x>> \o SubSeq(s, i, Len(s))

RemoveAt(s, i) == SubSeq(s, 1, i - 1) \o SubSeq(s, i + 1, Len(s))

\* How the record fits a segment: 1 at its end, 2 at its start, 0 not at all.
SegFit(seg, msr) ==
  LET hpdelta == HpDelta(msr.samprate)
      hptimetol == HpTimeTol(hpdelta)
      postgap == msr.starttime - seg.endtime - hpdelta
      pregap == seg.starttime - msr_endtime(msr) - hpdelta
  IN IF ~ MS_ISRATETOLERABLE(msr.samprate, seg.samprate) THEN 0
     ELSE IF Abs(postgap) <= hptimetol THEN 1
     ELSE IF Abs(pregap) <= hptimetol THEN 2
     ELSE 0

RECURSIVE FirstFit(_, _, _)
FirstFit(segs, i, msr) ==
  IF i > Len(segs) THEN 0
  ELSE IF SegFit(segs[i], msr) # 0 THEN i
  ELSE FirstFit(segs, i + 1, msr)

\* Position at which a segment starting at t goes, segments kept by start time.
SegPos(segs, t) == Cardinality({ i \in 1..Len(segs) : segs[i].starttime < t }) + 1

NewSeg(msr) ==
  [starttime |-> msr.starttime, endtime |-> msr_endtime(msr),
   samprate |-> msr.samprate, hasmap |-> FALSE, recmap |-> <<>>]

\* mstl_addmsr (mstl, msr, bestquality, 0, timetol, sampratetol):
\* returns the new trace list and the place [id, seg] of the segment the
\* record was added to.
mstl_addmsr(tl, msr) ==
  LET key == IdKey(msr.chan, msr.qual)
      found == { i \in 1..Len(tl) : IdKey(tl[i].chan, tl[i].dataquality) = key }
  IN IF found = {}
       THEN LET pos == Cardinality({ i \in 1..Len(tl) :
                                      IdKey(tl[i].chan, tl[i].dataquality) < key }) + 1
                id == [chan |-> msr.chan, dataquality |-> msr.qual,
                       segs |-> <<NewSeg(msr)>>, haslist |-> FALSE, list |-> <<>>]
            IN [mstl |-> InsertAt(tl, pos, id), id |-> pos, seg |-> 1]
       ELSE LET i == CHOOSE j \in found : TRUE
                segs == tl[i].segs
                f == FirstFit(segs, 1, msr)
            IN IF f = 0
                 THEN LET pos == SegPos(segs, msr.starttime)
                      IN [mstl |-> [tl EXCEPT ![i].segs = InsertAt(segs, pos, NewSeg(msr))],
                          id |-> i, seg |-> pos]
               ELSE IF SegFit(segs[f], msr) = 1
                 THEN [mstl |-> [tl EXCEPT ![i].segs[f].endtime = msr_endtime(msr)],
                       id |-> i, seg |-> f]
               ELSE LET moved == [segs[f] EXCEPT !.starttime = msr.starttime]
                        rest == RemoveAt(segs, f)
                        pos == SegPos(rest, msr.starttime)
                    IN [mstl |-> [tl EXCEPT ![i].segs = InsertAt(rest, pos, moved)],
                        id |-> i, seg |-> pos]

-----------------------------------------------------------------------------
(* readfiles(): one pass of the loop over the records of the input files    *)
(*                                                                         *)
(* Record = [offset, stageoffset, reclen, starttime, endtime, quality,     *)
(*           selectstart, selectend, newstart, newend]                     *)
(* offset is the position of the data record in infile (1 for the first).  *)

\* Where the record fit relative to the segment mstl_addmsr returned:
\* 0 new segment, 1 end, 2 beginning, 3 cannot be determined.
Whence(seg, recstarttime, recendtime) ==
  IF ~ seg.hasmap THEN 0
  ELSE IF seg.endtime = recendtime THEN 1
  ELSE IF seg.starttime = recstarttime THEN 2
  ELSE IF recendtime = recstarttime
    THEN (IF Abs(recstarttime - seg.endtime) < Abs(recstarttime - seg.starttime)
            THEN 1 ELSE 2)
  ELSE 3

NewRecord(msr, at) ==
  [offset |-> at, stageoffset |-> -1, reclen |-> msr.reclen,
   starttime |-> msr.starttime, endtime |-> msr_endtime(msr),
   quality |-> msr.qual,
   selectstart |-> HPTERROR, selectend |-> HPTERROR,
   newstart |-> HPTERROR, newend |-> HPTERROR]

\* If record is not completely selected search for joint selection limits.
SelectLimits(rec, msr) ==
  IF selections = <<>> THEN rec
  ELSE LET m == ms_matchselect(selections, 1, msr.chan, rec.starttime, rec.endtime)
           w == selections[m.sp].timewindows[m.stp]
       IN IF m.stp # 0 /\ ~ (w.starttime <= rec.starttime /\ w.endtime >= rec.endtime)
            THEN findselectlimits(selections, m.sp, msr.chan,
                                  rec.starttime, rec.endtime, rec)
            ELSE rec

\* Bounds induced only by times strictly inside the record's interval.
InducedBoundsStrict(rec) ==
  IF prunedata = "s" \/ prunedata = "e"
    THEN LET sel1 == IF starttime # HPTERROR /\ rec.selectstart # HPTERROR
                       THEN (IF starttime > rec.selectstart THEN starttime
                                                           ELSE rec.selectstart)
                     ELSE IF rec.selectstart # HPTERROR THEN rec.selectstart
                     ELSE starttime
             r1 == IF sel1 # HPTERROR /\ sel1 > rec.starttime /\ sel1 < rec.endtime
                     THEN [rec EXCEPT !.newstart = sel1] ELSE rec
             sel2 == IF endtime # HPTERROR /\ rec.selectend # HPTERROR
                       THEN (IF endtime < rec.selectend THEN endtime
                                                       ELSE rec.selectend)
                     ELSE IF rec.selectend # HPTERROR THEN rec.selectend
                     ELSE endtime
         IN IF sel2 # HPTERROR /\ sel2 > rec.starttime /\ sel2 < rec.endtime
              THEN [r1 EXCEPT !.newend = sel2] ELSE r1
    ELSE rec

\* If pruning at the sample level trim right at the start/end times.
InducedBounds(rec) ==
  IF prunedata = "s" \/ prunedata = "e"
    THEN LET sel1 == IF starttime # HPTERROR /\ rec.selectstart # HPTERROR
                       THEN (IF starttime > rec.selectstart THEN starttime
                                                           ELSE rec.selectstart)
                     ELSE IF rec.selectstart # HPTERROR THEN rec.selectstart
                     ELSE starttime
             r1 == IF sel1 # HPTERROR /\ sel1 > rec.starttime /\ sel1 <= rec.endtime
                     THEN [rec EXCEPT !.newstart = sel1] ELSE rec
             sel2 == IF endtime # HPTERROR /\ rec.selectend # HPTERROR
                       THEN (IF endtime < rec.selectend THEN endtime
                                                       ELSE rec.selectend)
                     ELSE IF rec.selectend # HPTERROR THEN rec.selectend
                     ELSE endtime
         IN IF sel2 # HPTERROR /\ sel2 >= rec.starttime /\ sel2 < rec.endtime
              THEN [r1 EXCEPT !.newend = sel2] ELSE r1
    ELSE rec

\* Ticks between two split boundaries.
SplitUnit ==
  CASE splitboundary = "d" -> 86400 * HPTMODULUS
    [] splitboundary = "h" -> 3600 * HPTMODULUS
    [] splitboundary = "m" -> 60 * HPTMODULUS

\* The next split boundary after time t (ms_hptime2btime, the lower fields
\* zeroed, the split field plus one, ms_btime2hptime).
NextBoundary(t) == ((t \div SplitUnit) + 1) * SplitUnit

\* Create extra Record structures if splitting on a time boundary:
\* the new record map, from its first to its last Record.
RECURSIVE SplitRecord(_)
SplitRecord(rec) ==
  LET effstarttime == IF rec.newstart # HPTERROR THEN rec.newstart ELSE rec.starttime
      boundary == NextBoundary(effstarttime)
  IN IF rec.endtime >= boundary
       THEN <<[rec EXCEPT !.newend = boundary - 1]>>
            \o SplitRecord([rec EXCEPT !.newstart = boundary])
       ELSE <<rec>>

NewRecordMap(msr, at) ==
  LET rec == InducedBounds(SelectLimits(NewRecord(msr, at), msr))
  IN IF splitboundary # "0" THEN SplitRecord(rec) ELSE <<rec>>

\* Copy record to staging buffer if space is available: the last Record of
\* the new record map gets the offset.
Staged(newrecmap) ==
  IF stagelength > 0 /\ ~ stagefull /\ (stagelength - stageoffset) >= 1
    THEN [newrecmap EXCEPT ![Len(newrecmap)].stageoffset = stageoffset]
    ELSE newrecmap

\* Add the new Record(s) to the RecordMap associated with the MSTraceSeg.
AddToRecordMap(seg, whence, newrecmap) ==
  IF whence = 1 THEN [seg EXCEPT !.recmap = seg.recmap \o newrecmap]
  ELSE IF whence = 2 THEN [seg EXCEPT !.recmap = newrecmap \o seg.recmap]
  ELSE [seg EXCEPT !.hasmap = TRUE, !.recmap = newrecmap]

ReadRecord ==
  /\ phase = "read"
  /\ fpos < Len(infile)
  /\ IF fault.op = "ingest" /\ fault.at = fpos + 1
       \* ms_readmsr returns an error: readfiles returns -1, main returns 1
       THEN /\ phase' = "done"
            /\ exitcode' = 1
            /\ UNCHANGED <<fpos, mstl, stageoffset, stagefull>>
       ELSE /\ fpos' = fpos + 1
            /\ UNCHANGED <<phase, exitcode>>
            /\ IF ~ Admitted(infile[fpos + 1])
               THEN UNCHANGED <<mstl, stageoffset, stagefull>>
               ELSE LET msr == infile[fpos + 1]
                        add == mstl_addmsr(mstl, msr)
                        seg == add.mstl[add.id].segs[add.seg]
                        whence == Whence(seg, msr.starttime, msr_endtime(msr))
                        newrecmap == Staged(NewRecordMap(msr, fpos + 1))
                    IN IF whence = 3
                         THEN /\ mstl' = add.mstl
                              /\ UNCHANGED <<stageoffset, stagefull>>
                         ELSE /\ mstl' = [add.mstl EXCEPT ![add.id].segs[add.seg] =
                                             AddToRecordMap(seg, whence, newrecmap)]
                              /\ IF stagelength > 0 /\ ~ stagefull
                                   THEN IF (stagelength - stageoffset) >= 1
                                          THEN /\ stageoffset' = stageoffset + 1
                                               /\ UNCHANGED stagefull
                                          ELSE /\ stagefull' = TRUE
                                               /\ UNCHANGED stageoffset
                                   ELSE UNCHANGED <<stageoffset, stagefull>>
  /\ UNCHANGED <<cfgvars, written, recordbuf, sortvars, wid, errflag, infp,
                 totalrecsout, totalbytesout, replaced, wlog, dsvars>>

\* readfiles read a file once ms_readmsr has reported its end.
AtEndOfFilesEarly == TRUE

AtEndOfFiles == fpos = Len(infile)

\* readfiles returns at the end of the last file; main then calls
\* processtraces when the trace list is not empty.
EndOfFiles ==
  /\ phase = "read"
  /\ AtEndOfFiles
  /\ phase' = IF mstl = <<>> THEN "done"
              ELSE IF prunedata = "r" \/ prunedata = "s" THEN "prune"
              ELSE IF prunedata = "e" THEN "reconcile"
              ELSE "write"
  /\ exitcode' = IF mstl = <<>> THEN 0 ELSE exitcode
  /\ UNCHANGED <<cfgvars, fpos, stageoffset, stagefull, mstl, written,
                 recordbuf, sortvars, wid, errflag, infp, totalrecsout,
                 totalbytesout, replaced, wlog, dsvars>>

-----------------------------------------------------------------------------
(* prunetraces(), findcoverage(), trimtrace()                              *)

\* A comparison that takes the first of two different codes for the greater.
qcompareFirst(quality1, quality2) == IF quality1 = quality2 THEN 0 ELSE -1
\* -1 = quality1 is greater than quality2, 0 = equal, 1 = quality2 is greater.
qcompare(quality1, quality2) ==
  IF quality1 = quality2 THEN 0
  ELSE IF quality1 = "R" /\ quality2 \in {"D", "Q", "M"} THEN 1
  ELSE IF quality1 = "D" /\ quality2 \in {"Q", "M"} THEN 1
  ELSE IF quality1 = "Q" /\ quality2 = "M" THEN 1
  ELSE -1

\* The loop over the Records of a segment that also takes the Records marked
\* non-contributing into the coverage.
RECURSIVE fc_recordsAll(_, _, _, _, _, _, _, _)
fc_recordsAll(recs, i, c, newsegment, hpdelta, hptimetol, qual, samprate) ==
  IF i > Len(recs) THEN c
  ELSE
    LET rec == recs[i]
        effstarttime == IF rec.newstart # HPTERROR THEN rec.newstart ELSE rec.starttime
        effendtime == IF rec.newend # HPTERROR THEN rec.newend ELSE rec.endtime
        brk == c.cov # <<>> /\
               Abs((Last(c.cov).endtime + hpdelta) - effstarttime) > hptimetol
        c1 == IF newsegment \/ brk
                THEN [cov |-> Append(c.cov, [dataquality |-> qual,
                                             samprate |-> samprate,
                                             starttime |-> effstarttime,
                                             endtime |-> effendtime]),
                      prev |-> Len(c.cov) + 1]
                ELSE [c EXCEPT !.cov[Len(c.cov)].endtime = effendtime]
    IN fc_recordsAll(recs, i + 1, c1, FALSE, hpdelta, hptimetol, qual, samprate)
\* The loop over the Records of an overlapping higher priority segment.
\* c = [cov, prev]: the coverage built so far (cmst is its last entry) and
\* the index in it of prevcmst (0 when unset).
RECURSIVE fc_records(_, _, _, _, _, _, _, _)
fc_records(recs, i, c, newsegment, hpdelta, hptimetol, qual, samprate) ==
  IF i > Len(recs) THEN c
  ELSE LET rec == recs[i] IN
    IF rec.reclen = 0
      THEN fc_records(recs, i + 1, c, newsegment, hpdelta, hptimetol, qual, samprate)
    ELSE
      LET effstarttime == IF rec.newstart # HPTERROR THEN rec.newstart ELSE rec.starttime
          effendtime == IF rec.newend # HPTERROR THEN rec.newend ELSE rec.endtime
          brk == c.cov # <<>> /\
                 Abs((Last(c.cov).endtime + hpdelta) - effstarttime) > hptimetol
          c1 == IF newsegment \/ brk
                  THEN [cov |-> Append(c.cov, [dataquality |-> qual,
                                               samprate |-> samprate,
                                               starttime |-> effstarttime,
                                               endtime |-> effendtime]),
                        prev |-> Len(c.cov) + 1]
                  ELSE [c EXCEPT !.cov[Len(c.cov)].endtime = effendtime]
      IN fc_records(recs, i + 1, c1, FALSE, hpdelta, hptimetol, qual, samprate)

\* The loop over the segments of one MSTraceID, from segment j on.
RECURSIVE fc_segs(_, _, _, _, _, _)
fc_segs(tl, i, j, ti, tj, c) ==
  IF j > Len(tl[i].segs) THEN c
  ELSE
    LET seg == tl[i].segs[j]
        targetseg == tl[ti].segs[tj]
        hpdelta == HpDelta(targetseg.samprate)
        hptimetol == HpTimeTol(hpdelta)
        priority0 == IF bestquality
                       THEN qcompare(tl[i].dataquality, tl[ti].dataquality) ELSE 0
        priority == IF priority0 = 0
                      THEN (IF (seg.endtime - seg.starttime) >=
                               (targetseg.endtime - targetseg.starttime)
                              THEN -1 ELSE 1)
                      ELSE priority0
    IN IF i = ti /\ j = tj THEN fc_segs(tl, i, j + 1, ti, tj, c)
       ELSE IF (targetseg.endtime + hptimetol) < seg.starttime THEN c
       ELSE IF seg.samprate = 0 THEN fc_segs(tl, i, j + 1, ti, tj, c)
       ELSE IF ~ MS_ISRATETOLERABLE(seg.samprate, targetseg.samprate)
         THEN fc_segs(tl, i, j + 1, ti, tj, c)
       ELSE IF c.prev # 0 /\ seg.starttime >= c.cov[c.prev].starttime
                          /\ seg.endtime <= c.cov[c.prev].endtime
         THEN fc_segs(tl, i, j + 1, ti, tj, c)
       ELSE IF (targetseg.endtime + hptimetol) >= seg.starttime /\
               (targetseg.starttime - hptimetol) <= seg.endtime /\
               priority = -1
         THEN fc_segs(tl, i, j + 1, ti, tj,
                      fc_records(seg.recmap, 1, c, TRUE, hpdelta, hptimetol,
                                 tl[i].dataquality, seg.samprate))
       ELSE fc_segs(tl, i, j + 1, ti, tj, c)

\* The loop over the MSTraceIDs that also looks at the IDs of the other
\* channels.
RECURSIVE fc_idsAnyChannel(_, _, _, _, _)
fc_idsAnyChannel(tl, i, ti, tj, cov) ==
  IF i > Len(tl) THEN cov
  ELSE fc_idsAnyChannel(tl, i + 1, ti, tj,
                        fc_segs(tl, i, 1, ti, tj, [cov |-> cov, prev |-> 0]).cov)
\* The loop over the MSTraceIDs of the list, from ID i on.
RECURSIVE fc_ids(_, _, _, _, _)
fc_ids(tl, i, ti, tj, cov) ==
  IF i > Len(tl) THEN cov
  ELSE IF tl[i].chan # tl[ti].chan THEN fc_ids(tl, i + 1, ti, tj, cov)
  ELSE fc_ids(tl, i + 1, ti, tj,
              fc_segs(tl, i, 1, ti, tj, [cov |-> cov, prev |-> 0]).cov)

\* The coverage of segment tj of ID ti by higher priority data: a sequence of
\* [dataquality, samprate, starttime, endtime]; empty when there is none.
findcoverage(tl, ti, tj) == fc_ids(tl, 1, ti, tj, <<>>)

\* A pass of trimtrace that, on marking a Record, also moves its end onto
\* its start.
TrimAgainstMoving(rec, cmst, hpdelta, hptimetol) ==
  IF rec.starttime >= (cmst.starttime - hptimetol) /\
     rec.endtime <= (cmst.endtime + hptimetol)
    THEN [rec EXCEPT !.reclen = 0, !.endtime = rec.starttime]
    ELSE rec
\* trimtrace: one pass of the inner loop, Record rec against entry cmst.
TrimAgainst(rec, cmst, hpdelta, hptimetol) ==
  LET es0 == IF rec.newstart # HPTERROR THEN rec.newstart ELSE rec.starttime
      ee0 == IF rec.newend # HPTERROR THEN rec.newend ELSE rec.endtime
      es1 == IF rec.selectstart # HPTERROR /\ rec.selectstart > es0
               THEN rec.selectstart ELSE es0
      ee1 == IF rec.selectend # HPTERROR /\ rec.selectend < ee0
               THEN rec.selectend ELSE ee0
      r1 == IF es1 >= (cmst.starttime - hptimetol) /\ ee1 <= (cmst.endtime + hptimetol)
              THEN [rec EXCEPT !.reclen = 0] ELSE rec
  IN IF prunedata = "s" /\ r1.reclen # 0
       THEN
         LET front == es1 < cmst.starttime /\ (ee1 + hptimetol) >= cmst.starttime
             newend == cmst.starttime - hpdelta + hptimetol
             r2 == IF front
                     THEN (IF starttime # HPTERROR /\ newend < starttime
                             THEN [r1 EXCEPT !.newend = newend, !.reclen = 0]
                             ELSE [r1 EXCEPT !.newend = newend])
                     ELSE r1
             ee2 == IF front /\ ~ (starttime # HPTERROR /\ newend < starttime)
                      THEN newend ELSE ee1
             back == (es1 - hptimetol) <= cmst.endtime /\ ee2 > cmst.endtime
             newstart == cmst.endtime + hpdelta - hptimetol
             r3 == IF back
                     THEN (IF endtime # HPTERROR /\ newstart > endtime
                             THEN [r2 EXCEPT !.newstart = newstart, !.reclen = 0]
                             ELSE [r2 EXCEPT !.newstart = newstart])
                     ELSE r2
             es2 == IF back /\ ~ (endtime # HPTERROR /\ newstart > endtime)
                      THEN newstart ELSE es1
         IN IF es2 >= (ee2 - hptimetol) /\
               ~ (rec.starttime = rec.endtime /\ rec.starttime = es2 /\ rec.endtime = ee2)
              THEN [r3 EXCEPT !.reclen = 0] ELSE r3
       ELSE r1

\* The inner loop of trimtrace over the coverage entries, from entry k on.
RECURSIVE tt_record(_, _, _, _, _)
tt_record(rec, cov, k, hpdelta, hptimetol) ==
  IF k > Len(cov) \/ rec.reclen = 0 THEN rec
  ELSE tt_record(TrimAgainst(rec, cov[k], hpdelta, hptimetol), cov, k + 1,
                 hpdelta, hptimetol)

\* trimtrace(): the target segment with its Records marked and bounded.
trimtrace(targetseg, coverage) ==
  LET hpdelta == HpDelta(targetseg.samprate)
      hptimetol == HpTimeTol(hpdelta)
  IN [targetseg EXCEPT !.recmap =
        [n \in 1..Len(targetseg.recmap) |->
           tt_record(targetseg.recmap[n], coverage, 1, hpdelta, hptimetol)]]

\* prunetraces: the loops over every MSTraceID and every MSTraceSeg, from
\* segment j of ID i on.
RECURSIVE pt_loop(_, _, _)
pt_loop(tl, i, j) ==
  IF i > Len(tl) THEN tl
  ELSE IF j > Len(tl[i].segs) THEN pt_loop(tl, i + 1, 1)
  ELSE LET coverage == findcoverage(tl, i, j)
       IN IF coverage # <<>>
            THEN pt_loop([tl EXCEPT ![i].segs[j] = trimtrace(tl[i].segs[j], coverage)],
                         i, j + 1)
            ELSE pt_loop(tl, i, j + 1)

prunetraces(tl) == pt_loop(tl, 1, 1)

PruneTraces ==
  /\ phase = "prune"
  /\ mstl' = prunetraces(mstl)
  /\ phase' = "reconcile"
  /\ UNCHANGED <<cfgvars, fpos, stageoffset, stagefull, written, recordbuf,
                 sortvars, wrvars, dsvars>>

-----------------------------------------------------------------------------
(* reconcile_tracetimes()                                                  *)

\* Index of the first contributing Record (reclen > 0) of a map, 0 if none.
FirstContributing(recmap) ==
  LET c == { n \in 1..Len(recmap) : recmap[n].reclen > 0 }
  IN IF c = {} THEN 0 ELSE CHOOSE n \in c : \A m \in c : n <= m

\* Index of the last contributing Record of a map, 0 if none.
LastContributing(recmap) ==
  LET c == { n \in 1..Len(recmap) : recmap[n].reclen > 0 }
  IN IF c = {} THEN 0 ELSE CHOOSE n \in c : \A m \in c : n >= m

\* A reconciliation that also cuts the segment at the selection limits of
\* its first and last contributing Records.
ReconcileSegSelected(seg) ==
  LET f == FirstContributing(seg.recmap)
      l == LastContributing(seg.recmap)
      first == seg.recmap[f]
      last == seg.recmap[l]
      es == IF first.newstart # HPTERROR THEN first.newstart ELSE first.starttime
      ee == IF last.newend # HPTERROR THEN last.newend ELSE last.endtime
  IN IF f = 0 THEN seg
     ELSE [seg EXCEPT
             !.starttime = IF first.selectstart # HPTERROR /\ first.selectstart > es
                             THEN first.selectstart ELSE es,
             !.endtime = IF last.selectend # HPTERROR /\ last.selectend < ee
                           THEN last.selectend ELSE ee]

ReconcileSeg(seg) ==
  LET f == FirstContributing(seg.recmap)
      l == LastContributing(seg.recmap)
      first == seg.recmap[f]
      last == seg.recmap[l]
      s1 == IF f = 0 THEN seg
            ELSE IF first.newstart # HPTERROR /\ first.newstart > first.starttime
              THEN [seg EXCEPT !.starttime = first.newstart]
            ELSE [seg EXCEPT !.starttime = first.starttime]
  IN IF l = 0 THEN s1
     ELSE IF last.newend # HPTERROR /\ last.newend < last.endtime
       THEN [s1 EXCEPT !.endtime = last.newend]
     ELSE [s1 EXCEPT !.endtime = last.endtime]

reconcile_tracetimes(tl) ==
  [i \in 1..Len(tl) |->
     [tl[i] EXCEPT !.segs = [j \in 1..Len(tl[i].segs) |-> ReconcileSeg(tl[i].segs[j])]]]

ReconcileTracetimes ==
  /\ phase = "reconcile"
  /\ mstl' = reconcile_tracetimes(mstl)
  /\ phase' = "write"
  /\ UNCHANGED <<cfgvars, fpos, stageoffset, stagefull, written, recordbuf,
                 sortvars, wrvars, dsvars>>

-----------------------------------------------------------------------------
(* sortrecmap(), recordcmp()                                               *)
(*                                                                         *)
(* A RecordMap is [first, last, recs]: recs is the chain of Records in the *)
(* order of their next links, first and last hold the offset field of the  *)
(* Records the two pointers name (0 for a null pointer).                   *)

\* Return 1 if rec1 is "greater" than rec2, otherwise return 0.
recordcmp(rec1, rec2) ==
  LET start1 == IF rec1.newstart # HPTERROR THEN rec1.newstart ELSE rec1.starttime
      start2 == IF rec2.newstart # HPTERROR THEN rec2.newstart ELSE rec2.starttime
  IN IF start1 > start2 THEN 1 ELSE 0

\* A merge that takes from q on equal keys (the comparison turned around):
\* the sort it gives is not stable.
TakeFromPStrict(p, q) == recordcmp(q, p) = 1

\* Decide whether the next element of the merge comes from p (both lists
\* non-empty).
TakeFromP(p, q) == recordcmp(p, q) <= 0

\* Merge the list ps (psize elements from p) and the list qs.
RECURSIVE MergeLists(_, _)
MergeLists(ps, qs) ==
  IF ps = <<>> THEN qs
  ELSE IF qs = <<>> THEN ps
  ELSE IF TakeFromP(Head(ps), Head(qs))
    THEN <<Head(ps)>> \o MergeLists(Tail(ps), qs)
  ELSE <<Head(qs)>> \o MergeLists(ps, Tail(qs))

\* One pass over the chain merging neighbouring lists of insize elements:
\* [out, nmerges].
RECURSIVE MergePass(_, _)
MergePass(chain, insize) ==
  IF chain = <<>> THEN [out |-> <<>>, nmerges |-> 0]
  ELSE LET psize == Min2(insize, Len(chain))
           qsize == Min2(insize, Len(chain) - psize)
           rest == MergePass(SubSeq(chain, psize + qsize + 1, Len(chain)), insize)
       IN [out |-> MergeLists(SubSeq(chain, 1, psize),
                              SubSeq(chain, psize + 1, psize + qsize)) \o rest.out,
           nmerges |-> rest.nmerges + 1]

\* The passes of the sort, merging lists twice the size each time.
RECURSIVE SortChain(_, _)
SortChain(chain, insize) ==
  LET pass == MergePass(chain, insize)
  IN IF pass.nmerges <= 1 THEN pass.out ELSE SortChain(pass.out, insize * 2)

sortrecmap(recmap) ==
  IF recmap.first = 0 \/ recmap.last = 0 THEN recmap
  ELSE LET top == SortChain(recmap.recs, 1)
       IN [first |-> top[1].offset, last |-> top[Len(top)].offset, recs |-> top]

\* The RecordMap whose chain is recs.
RecordMapOf(recs) ==
  [first |-> IF recs = <<>> THEN 0 ELSE recs[1].offset,
   last |-> IF recs = <<>> THEN 0 ELSE recs[Len(recs)].offset,
   recs |-> recs]

-----------------------------------------------------------------------------
(* trimrecord()                                                            *)
(*                                                                         *)
(* The bytes of a data record are modelled by what they decode to:         *)
(* [offset, first, samplecnt, starttime, samprate, encoding, Blkt1000],    *)
(* samples first..first+samplecnt-1 of the data record at infile[offset].  *)

\* The bytes of the data record at position at of the input files.
RecordBytes(at) ==
  [offset |-> at, first |-> 1, samplecnt |-> infile[at].samplecnt,
   starttime |-> infile[at].starttime, samprate |-> infile[at].samprate,
   encoding |-> infile[at].encoding, Blkt1000 |-> infile[at].Blkt1000,
   dataok |-> infile[at].dataok]

\* The global record buffer before anything is read into it.
ZeroBytes ==
  [offset |-> 0, first |-> 1, samplecnt |-> 0, starttime |-> 0, samprate |-> 0,
   encoding |-> "NONE", Blkt1000 |-> FALSE, dataok |-> FALSE]

\* msr_unpack of the header: fails on a buffer that holds no record.
HeaderOK(bytes) == bytes.offset # 0

\* A sanity check that does not compare the new start time with the times
\* of the record.
BoundsInsaneEnd(rec) ==
  \/ (rec.newstart # HPTERROR /\ rec.newend # HPTERROR /\ rec.newstart > rec.newend)
  \/ (rec.newend # HPTERROR /\
      (rec.newend > rec.endtime \/ rec.newend < rec.starttime))
\* Sanity check for new start/end times.
BoundsInsane(rec) ==
  \/ (rec.newstart # HPTERROR /\ rec.newend # HPTERROR /\ rec.newstart > rec.newend)
  \/ (rec.newstart # HPTERROR /\
      (rec.newstart < rec.starttime \/ rec.newstart > rec.endtime))
  \/ (rec.newend # HPTERROR /\
      (rec.newend > rec.endtime \/ rec.newend < rec.starttime))

\* A front trim that also removes the sample at newstart itself.
RECURSIVE TrimFrontLoose(_, _, _, _, _)
TrimFrontLoose(newstarttime, trimsamples, newstart, hpdelta, samplecnt) ==
  IF newstarttime <= newstart /\ trimsamples < samplecnt
    THEN TrimFrontLoose(newstarttime + hpdelta, trimsamples + 1, newstart, hpdelta,
                        samplecnt)
    ELSE [time |-> newstarttime, trimsamples |-> trimsamples]

\* while ( newstarttime < rec->newstart && trimsamples < msr->samplecnt )
RECURSIVE TrimFront(_, _, _, _, _)
TrimFront(newstarttime, trimsamples, newstart, hpdelta, samplecnt) ==
  IF newstarttime < newstart /\ trimsamples < samplecnt
    THEN TrimFront(newstarttime + hpdelta, trimsamples + 1, newstart, hpdelta, samplecnt)
    ELSE [time |-> newstarttime, trimsamples |-> trimsamples]

\* A back trim that also removes the sample at newend itself.
RECURSIVE TrimBackLoose(_, _, _, _, _)
TrimBackLoose(newendtime, trimsamples, newend, hpdelta, samplecnt) ==
  IF newendtime >= newend /\ trimsamples < samplecnt
    THEN TrimBackLoose(newendtime - hpdelta, trimsamples + 1, newend, hpdelta,
                       samplecnt)
    ELSE [time |-> newendtime, trimsamples |-> trimsamples]
\* while ( newendtime > rec->newend && trimsamples < msr->samplecnt )
RECURSIVE TrimBack(_, _, _, _, _)
TrimBack(newendtime, trimsamples, newend, hpdelta, samplecnt) ==
  IF newendtime > newend /\ trimsamples < samplecnt
    THEN TrimBack(newendtime - hpdelta, trimsamples + 1, newend, hpdelta, samplecnt)
    ELSE [time |-> newendtime, trimsamples |-> trimsamples]

\* trimrecord (rec, recordbuf): [rv, rec, packed, bytes].  rv is the return
\* value, rec the Record as trimrecord leaves it, packed says whether the
\* record was re-packed into the global record buffer, bytes what was packed.
trimrecord(rec, bytes) ==
  IF BoundsInsane(rec)
    THEN [rv |-> -1, rec |-> rec, packed |-> FALSE, bytes |-> bytes]
  ELSE IF ~ HeaderOK(bytes)
    THEN [rv |-> -2, rec |-> rec, packed |-> FALSE, bytes |-> bytes]
  ELSE IF ~ bytes.Blkt1000 \/ bytes.encoding \notin SupportedEncodings
    THEN [rv |-> 0, rec |-> rec, packed |-> FALSE, bytes |-> bytes]
  ELSE IF ~ bytes.dataok
    THEN [rv |-> -2, rec |-> rec, packed |-> FALSE, bytes |-> bytes]
  ELSE
    LET hpdelta == HpDelta(bytes.samprate)
        dofront == rec.newstart # HPTERROR /\ hpdelta # 0
        f == TrimFront(rec.starttime, 0, rec.newstart, hpdelta, bytes.samplecnt)
        rec1 == IF dofront THEN [rec EXCEPT !.starttime = f.time] ELSE rec
        msr1 == IF dofront
                  THEN [bytes EXCEPT !.first = bytes.first + f.trimsamples,
                                     !.samplecnt = bytes.samplecnt - f.trimsamples,
                                     !.starttime = f.time]
                  ELSE bytes
        doback == rec.newend # HPTERROR /\ hpdelta # 0
        b == TrimBack(rec1.endtime, 0, rec1.newend, hpdelta, msr1.samplecnt)
    IN IF dofront /\ f.trimsamples >= bytes.samplecnt
         THEN [rv |-> -1, rec |-> rec, packed |-> FALSE, bytes |-> bytes]
       ELSE IF doback /\ b.trimsamples >= msr1.samplecnt
         THEN [rv |-> -1, rec |-> rec1, packed |-> FALSE, bytes |-> bytes]
       ELSE IF doback
         THEN [rv |-> 0, rec |-> [rec1 EXCEPT !.endtime = b.time], packed |-> TRUE,
               bytes |-> [msr1 EXCEPT !.samplecnt = msr1.samplecnt - b.trimsamples]]
       ELSE [rv |-> 0, rec |-> rec1, packed |-> TRUE, bytes |-> msr1]

-----------------------------------------------------------------------------
(* dsarchive.c: archives of data records                                   *)
(*                                                                         *)
(* DataStream      = [root, path, idletimeout, grouproot]                  *)
(*   root and path are the layout: the directory it starts with and the    *)
(*   sequence of its flags [code, def], def TRUE for a defining flag (%),  *)
(*   FALSE for a non-defining one (#);                                     *)
(*   grouproot is the chain of its DataStreamGroup entries.                *)
(* DataStreamGroup = [defkey, filed, modtime]                              *)
(* The archive state handed through the calls is                           *)
(*   a = [streams, openfilecount, fdtable, files]:                         *)
(*   the DataStreams, ds_openfilecount, the open descriptors and the       *)
(*   records written so far with the file each went to.                    *)
(* Layouts are a single path element (no directories to create);           *)
(* ds_maxopenfiles is not above the soft descriptor limit, so ds_openfile  *)
(* leaves it as it is.  The expansions of the flags used have a fixed      *)
(* width each, so the sequence of expansions stands for the string the     *)
(* code concatenates.                                                      *)

\* The expansion of a flag for a data record.
Expand(code, bytes) ==
  CASE code = "c" -> infile[bytes.offset].chan
    [] code = "q" -> infile[bytes.offset].qual
    [] code = "M" -> (bytes.starttime \div (60 * HPTMODULUS)) % 60
    [] code = "S" -> (bytes.starttime \div HPTMODULUS) % 60

\* The file name built from the layout: the directory the layout starts
\* with, then every flag expanded.
FileName(ds, bytes) ==
  <<ds.root>> \o [k \in 1..Len(ds.path) |-> Expand(ds.path[k].code, bytes)]

\* The definition key built from the layout: the defining flags expanded.
RECURSIVE Definition(_, _, _)
Definition(path, k, bytes) ==
  IF k > Len(path) THEN <<>>
  ELSE (IF path[k].def THEN <<Expand(path[k].code, bytes)>> ELSE <<>>)
       \o Definition(path, k + 1, bytes)

\* ds_closeidle: the traversal of the stream chain, from group k on.
\* c = [kept, count, fdtable]: the chain kept so far, the number of files
\* closed and the open descriptors.
RECURSIVE ci_loop(_, _, _, _, _)
ci_loop(groups, k, c, idletimeout, openfilecount) ==
  IF k > Len(groups) THEN c
  ELSE
    LET g == groups[k]
        idle == g.modtime > 0 /\ (curtime - g.modtime) > idletimeout
        \* close() fails on a descriptor that is not open
        closed == idle /\ (\E e \in c.fdtable : e.fd = g.filed)
        c1 == [kept |-> IF idle THEN c.kept ELSE Append(c.kept, g),
               count |-> IF closed THEN c.count + 1 ELSE c.count,
               fdtable |-> IF closed THEN { e \in c.fdtable : e.fd # g.filed }
                                     ELSE c.fdtable]
    IN IF idletimeout < 0 /\ (openfilecount - 10 - c1.count) < ds_maxopenfiles
         THEN [c1 EXCEPT !.kept = c1.kept \o SubSeq(groups, k + 1, Len(groups))]
         ELSE ci_loop(groups, k + 1, c1, idletimeout, openfilecount)

\* ds_closeidle (datastream, idletimeout): [a, count].
ds_closeidle(a, d, idletimeout) ==
  LET Closed(c) ==
        [a |-> [a EXCEPT !.streams[d].grouproot = c.kept,
                         !.openfilecount = a.openfilecount - c.count,
                         !.fdtable = c.fdtable],
         count |-> c.count]
  IN Closed(ci_loop(a.streams[d].grouproot, 1,
                    [kept |-> <<>>, count |-> 0, fdtable |-> a.fdtable],
                    idletimeout, a.openfilecount))

\* Close idle streams until we have free descriptors.
RECURSIVE ev_loop(_, _, _)
ev_loop(a, d, idletimeout) ==
  LET Again(r) == IF r.count = 0 /\ idletimeout >= 0
                    THEN ev_loop(r.a, d, (idletimeout \div 2) - 1)
                    ELSE r.a
  IN Again(ds_closeidle(a, d, idletimeout))

\* The descriptor open() returns: the lowest one not in use, from 3 on.
LowestFd(fdt) ==
  CHOOSE n \in 3..(3 + Cardinality(fdt)) :
    /\ \A e \in fdt : e.fd # n
    /\ \A m \in 3..(n - 1) : \E e \in fdt : e.fd = m

\* ds_openfile (datastream, filename): [a, oret, over, evicted].  over says
\* whether the open file limit was reached, evicted how many files the
\* eviction closed.
ds_openfile(a, d, filename, openfails) ==
  LET over == (a.openfilecount + 10) > ds_maxopenfiles
      Open(a1, fd) ==
        LET evicted == a.openfilecount - a1.openfilecount
        IN IF openfails
             THEN [a |-> a1, oret |-> -1, over |-> over, evicted |-> evicted]
             ELSE [a |-> [a1 EXCEPT !.openfilecount = a1.openfilecount + 1,
                                    !.fdtable = a1.fdtable \cup
                                                {[fd |-> fd, file |-> filename]}],
                   oret |-> fd, over |-> over, evicted |-> evicted]
      Evict(a1) == Open(a1, LowestFd(a1.fdtable))
  IN Evict(IF over THEN ev_loop(a, d, a.streams[d].idletimeout) ELSE a)

\* Place in the chain of the group with the definition key, 0 if none.
GroupIndex(groups, defkey) ==
  LET s == { k \in 1..Len(groups) : groups[k].defkey = defkey }
  IN IF s = {} THEN 0 ELSE CHOOSE k \in s : \A m \in s : k <= m

\* ds_getstream (datastream, defkey, filename):
\* [a, found, opened, over, evicted]; found is the place of the group in
\* the chain, 0 for NULL.
ds_getstream(a, d, defkey, filename, openfails) ==
  LET groups == a.streams[d].grouproot
      f == GroupIndex(groups, defkey)
      groups1 == IF f # 0
                   THEN (IF groups[f].modtime > 0
                           THEN [groups EXCEPT ![f].modtime = - groups[f].modtime]
                           ELSE groups)
                   ELSE Append(groups, [defkey |-> defkey, filed |-> 0,
                                        modtime |-> - curtime])
      Opened(o, g2) ==
        [a |-> [o.a EXCEPT !.streams[d].grouproot[g2].filed = o.oret],
         found |-> IF o.oret = -1 THEN 0 ELSE g2,
         opened |-> o.oret # -1, over |-> o.over, evicted |-> o.evicted]
      Group(o) == Opened(o, GroupIndex(o.a.streams[d].grouproot, defkey))
      Stream(a1, g) ==
        IF a1.streams[d].grouproot[g].filed = 0
          THEN Group(ds_openfile(a1, d, filename, openfails))
          ELSE [a |-> a1, found |-> g, opened |-> FALSE, over |-> FALSE,
                evicted |-> 0]
      Idle(a1) == Stream(a1, GroupIndex(a1.streams[d].grouproot, defkey))
  IN Idle(ds_closeidle([a EXCEPT !.streams[d].grouproot = groups1], d,
                       a.streams[d].idletimeout).a)

\* ds_streamproc (datastream, msr): [a, rv, opened, over, evicted, wrote].
\* write() returns -1 on a descriptor that is not open and when the write
\* fails; only a return of 0 is taken as a failure.
ds_streamproc(a, d, bytes) ==
  LET path == a.streams[d].path
      filename == FileName(a.streams[d], bytes)
      definition == Definition(path, 1, bytes)
      Write(r, filed, wrote) ==
        [a |-> [r.a EXCEPT
                  !.streams[d].grouproot[r.found].modtime = curtime,
                  !.files = IF wrote
                              THEN Append(r.a.files,
                                          [file |-> (CHOOSE e \in r.a.fdtable :
                                                       e.fd = filed).file,
                                           bytes |-> bytes])
                              ELSE r.a.files],
         rv |-> 0, opened |-> r.opened, over |-> r.over, evicted |-> r.evicted,
         wrote |-> wrote]
      Descriptor(r, filed) ==
        Write(r, filed, /\ \E e \in r.a.fdtable : e.fd = filed
                        /\ ~ (fault.op = "awrite" /\ fault.at = bytes.offset))
      Proc(r) ==
        IF r.found = 0
          THEN [a |-> r.a, rv |-> -1, opened |-> r.opened, over |-> r.over,
                evicted |-> r.evicted, wrote |-> FALSE]
          ELSE Descriptor(r, r.a.streams[d].grouproot[r.found].filed)
  IN Proc(ds_getstream(a, d, definition, filename,
                       fault.op = "aopen" /\ fault.at = bytes.offset))

-----------------------------------------------------------------------------
(* writetraces(): the archive loop                                         *)

\* The archive state the ds_ functions work on.
ArchState ==
  [streams |-> archiveroot, openfilecount |-> ds_openfilecount,
   fdtable |-> fdtable, files |-> arfiles]

\* Write the record to every archive of the chain, from archive d on; the
\* return value of ds_streamproc is not looked at.  [a, calls]: calls keeps
\* what each call did.
RECURSIVE wt_archive(_, _, _, _)
wt_archive(a, d, bytes, calls) ==
  IF d > Len(a.streams) THEN [a |-> a, calls |-> calls]
  ELSE LET Rest(r) ==
             wt_archive(r.a, d + 1, bytes,
                        Append(calls, [rv |-> r.rv, opened |-> r.opened,
                                       over |-> r.over, evicted |-> r.evicted,
                                       wrote |-> r.wrote]))
       IN Rest(ds_streamproc(a, d, bytes))

-----------------------------------------------------------------------------
(* writetraces()                                                           *)

\* The contributing Records of the segments of an MSTraceID, from segment j
\* on, in chain order (marked Records are freed and skipped).
RECURSIVE SegRecords(_, _)
SegRecords(segs, j) ==
  IF j > Len(segs) THEN <<>>
  ELSE SelectSeq(segs[j].recmap, LAMBDA r : r.reclen # 0) \o SegRecords(segs, j + 1)

\* A grouping that leaves every MSTraceID in a group of its own.
GroupIdOwn(tl, i) == i
\* The group ID of MSTraceID i: the ID itself when not pruning, else the
\* first ID of the run of IDs with its network, station, location, channel.
GroupId(tl, i) ==
  IF prunedata # "0"
    THEN CHOOSE g \in 1..i :
           /\ \A k \in g..i : tl[k].chan = tl[i].chan
           /\ (g > 1 => tl[g - 1].chan # tl[i].chan)
    ELSE i

\* The write list of group ID g: the Records of the IDs of its group, from
\* ID i on.
RECURSIVE GroupRecords(_, _, _)
GroupRecords(tl, g, i) ==
  IF i > Len(tl) THEN <<>>
  ELSE (IF GroupId(tl, i) = g THEN SegRecords(tl[i].segs, 1) ELSE <<>>)
       \o GroupRecords(tl, g, i + 1)

\* Re-link records into write lists, from per-segment lists to per ID lists.
Regroup(tl) ==
  [i \in 1..Len(tl) |->
     [tl[i] EXCEPT
        !.haslist = (GroupId(tl, i) = i),
        !.list = IF GroupId(tl, i) = i THEN GroupRecords(tl, i, i) ELSE <<>>,
        !.segs = [j \in 1..Len(tl[i].segs) |->
                    [tl[i].segs[j] EXCEPT !.hasmap = FALSE, !.recmap = <<>>]]]]

\* The I/O operation op fails when the write loop is at Record rec.
Fails(op, rec) == fault.op = op /\ fault.at = rec.offset

\* The loop over the Records of the write list of MSTraceID id, from Record
\* n on.  w = [list, recordbuf, written, errflag, infp, totalrecsout,
\* totalbytesout, replaced, a, dscall, wlog]; a is the archive state.  The
\* entry added to wlog says, for Record n of the list of id: the Record as
\* the loop found it, whether trimrecord was called for it, the return
\* value rv of trimrecord, the operation that failed, the number nout of files the
\* record was written to, the bytes written, whether the record was counted
\* and the error flag it left.
RECURSIVE wt_records(_, _, _)
wt_records(w, id, n) ==
  IF n > Len(w.list) \/ w.errflag # 0 THEN w
  ELSE
    LET rec == w.list[n]
        staged == rec.stageoffset >= 0
        \* Otherwise read the record from the input file
        openfail == ~ staged /\ ~ w.infp /\ Fails("infopen", rec)
        seekfail == ~ staged /\ ~ openfail /\ Fails("seek", rec)
        readfail == ~ staged /\ ~ openfail /\ ~ seekfail /\ Fails("read", rec)
        infp1 == w.infp \/ (~ staged /\ ~ openfail)
        \* the record buffer after the record is located
        buf1 == IF staged THEN w.recordbuf ELSE RecordBytes(rec.offset)
        recordptr == IF staged THEN RecordBytes(rec.offset) ELSE buf1
        trim == rec.newstart # HPTERROR \/ rec.newend # HPTERROR
        called == trim /\ ~ (openfail \/ seekfail \/ readfail)
        \* the record is located
        w1 == [w EXCEPT !.infp = infp1]
        \* Write to a single output file if specified
        n3 == IF outputfile THEN 1 ELSE 0
        \* rv is the return value of trimrecord, buf2 the global record buffer
        \* and rec2 the Record after it, out the bytes to write
        Trimmed(rv, buf2, rec2, out) ==
          LET Entry(failed, nout, counted, ef) ==
                [id |-> id, n |-> n, rec |-> rec, trim |-> called,
                 rv |-> IF called THEN rv ELSE 0,
                 failed |-> failed, nout |-> nout, bytes |-> out,
                 counted |-> counted, errflag |-> ef]
              Stop(v, failed, nout, ef) ==
                [v EXCEPT !.errflag = ef,
                          !.wlog = Append(w.wlog, Entry(failed, nout, FALSE, ef))]
              \* trimrecord is done with it
              w2 == [w1 EXCEPT !.list[n] = rec2, !.recordbuf = buf2]
              w3 == IF outputfile
                      THEN [w2 EXCEPT !.written =
                                        Append(w.written,
                                               [rec |-> rec2, bytes |-> out])]
                      ELSE w2
              \* Write to Archive(s) if specified
              Archived(ar) ==
                LET w4 == IF w.a.streams # <<>>
                            THEN [w3 EXCEPT !.a = ar.a, !.dscall = ar.calls]
                            ELSE w3
                    n4 == n3 + (Len(w4.a.files) - Len(w.a.files))
                    afail == IF w.a.streams = <<>> THEN "none"
                             ELSE IF \E d \in 1..Len(ar.calls) : ar.calls[d].rv = -1
                               THEN "aopen"
                             ELSE IF \E d \in 1..Len(ar.calls) : ~ ar.calls[d].wrote
                               THEN "awrite"
                             ELSE "none"
                    \* Open original file for output if replacing input and write
                    w5 == IF replaceinput
                            THEN [w4 EXCEPT !.replaced =
                                              Append(w.replaced,
                                                     [rec |-> rec2, bytes |-> out])]
                            ELSE w4
                    n5 == IF replaceinput THEN n4 + 1 ELSE n4
                IN IF replaceinput /\ w.replaced = <<>> /\ Fails("ropen", rec)
                     THEN Stop(w4, "ropen", n4, 1)
                   ELSE IF replaceinput /\ Fails("rwrite", rec)
                     THEN Stop(w4, "rwrite", n4, 1)
                   ELSE wt_records([w5 EXCEPT
                                      !.totalrecsout = w.totalrecsout + 1,
                                      !.totalbytesout = w.totalbytesout + rec.reclen,
                                      !.wlog = Append(w.wlog,
                                                      Entry(afail, n5, TRUE, 0))],
                                   id, n + 1)
          IN IF openfail THEN Stop(w, "infopen", 0, 1)
             ELSE IF seekfail THEN Stop(w1, "seek", 0, 1)
             ELSE IF readfail THEN Stop(w1, "read", 0, 1)
             ELSE IF trim /\ rv = -1
               THEN wt_records([w2 EXCEPT !.wlog =
                                            Append(w.wlog,
                                                   Entry("none", 0, FALSE, 0))],
                               id, n + 1)
             ELSE IF trim /\ rv = -2 THEN Stop(w2, "none", 0, 2)
             ELSE IF outputfile /\ Fails("owrite", rec) THEN Stop(w2, "owrite", 0, 1)
             ELSE IF w.a.streams # <<>> /\ ~ HeaderOK(out)
               THEN Stop(w3, "unpack", n3, 2)
             ELSE Archived(wt_archive(w.a, 1, out, <<>>))
        \* Trimmed records are re-packed in the global record buffer
        Repacked(rv, buf2, rec2) ==
          Trimmed(rv, buf2, rec2, IF trim THEN buf2 ELSE recordptr)
        Trim(t) ==
          Repacked(IF trim THEN t.rv ELSE 0,
                   IF trim /\ t.rv = 0 /\ t.packed THEN t.bytes ELSE buf1,
                   IF trim THEN t.rec ELSE rec)
    IN Trim(trimrecord(rec, recordptr))

\* The next MSTraceID with a write list, from ID i on; past the end of the
\* list when there is none.
NextList(tl, i) ==
  LET s == { k \in i..Len(tl) : tl[k].haslist }
  IN IF s = {} THEN Len(tl) + 1 ELSE CHOOSE k \in s : \A m \in s : k <= m

\* writetraces up to the loop over the write lists: the output file is
\* opened and the Records are re-linked into write lists.
WriteTraces ==
  /\ phase = "write"
  /\ IF outputfile /\ fault.op = "oopen"
       THEN /\ phase' = "done"
            /\ exitcode' = 1
            /\ UNCHANGED <<mstl, wid>>
       ELSE /\ mstl' = Regroup(mstl)
            /\ wid' = NextList(Regroup(mstl), 1)
            /\ phase' = "emit"
            /\ UNCHANGED exitcode
  /\ UNCHANGED <<cfgvars, fpos, stageoffset, stagefull, written, recordbuf,
                 sortvars, errflag, infp, totalrecsout, totalbytesout, replaced,
                 wlog, dsvars>>

\* The write list of the sort of MSTraceID i: sorted when overlaps have been
\* pruned.
SortedList(i) ==
  IF prunedata = "r" \/ prunedata = "s"
    THEN sortrecmap(RecordMapOf(mstl[i].list)).recs
    ELSE mstl[i].list

\* One turn of the loop over the MSTraceIDs: the write list of ID wid is
\* sorted and its Records are written.
WriteList ==
  /\ phase = "emit"
  /\ wid <= Len(mstl)
  /\ errflag # 1
  /\ LET Written(w) ==
           /\ mstl' = [mstl EXCEPT ![wid].list = w.list]
           /\ recordbuf' = w.recordbuf
           /\ written' = w.written
           /\ errflag' = w.errflag
           /\ infp' = w.infp
           /\ totalrecsout' = w.totalrecsout
           /\ totalbytesout' = w.totalbytesout
           /\ replaced' = w.replaced
           /\ archiveroot' = w.a.streams
           /\ ds_openfilecount' = w.a.openfilecount
           /\ fdtable' = w.a.fdtable
           /\ arfiles' = w.a.files
           /\ dscall' = w.dscall
           /\ wlog' = w.wlog
     IN Written(wt_records([list |-> SortedList(wid), recordbuf |-> recordbuf,
                            written |-> written, errflag |-> 0, infp |-> infp,
                            totalrecsout |-> totalrecsout,
                            totalbytesout |-> totalbytesout,
                            replaced |-> replaced, a |-> ArchState,
                            dscall |-> dscall, wlog |-> wlog], wid, 1))
  /\ wid' = NextList(mstl, wid + 1)
  /\ UNCHANGED <<cfgvars, fpos, stageoffset, stagefull, phase, sortvars, exitcode,
                 ds_maxopenfiles, curtime>>

\* The end of writetraces and of main: the files are closed, writetraces
\* returns 1 when the error flag is set and main returns what it returned.
WriteEnd ==
  /\ phase = "emit"
  /\ (wid > Len(mstl) \/ errflag = 1)
  /\ infp' = FALSE
  /\ exitcode' = IF errflag # 0 THEN 1 ELSE 0
  /\ phase' = "done"
  /\ UNCHANGED <<cfgvars, fpos, stageoffset, stagefull, mstl, written, recordbuf,
                 sortvars, wid, errflag, totalrecsout, totalbytesout, replaced,
                 wlog, dsvars>>

-----------------------------------------------------------------------------
(* Runs: the options main() leaves after processparam() and the contents   *)
(* of the input files.                                                     *)

\* State common to every run when readfiles starts.
Start ==
  /\ fpos = 0
  /\ stageoffset = 0
  /\ stagefull = FALSE
  /\ mstl = <<>>
  /\ phase = "read"
  /\ written = <<>>
  /\ recordbuf = ZeroBytes
  /\ sortin = RecordMapOf(<<>>)
  /\ sortout = RecordMapOf(<<>>)
  /\ wid = 0
  /\ errflag = 0
  /\ infp = FALSE
  /\ totalrecsout = 0
  /\ totalbytesout = 0
  /\ replaced = <<>>
  /\ exitcode = -1
  /\ wlog = <<>>
  /\ run = 1
  /\ ds_openfilecount = 0
  /\ fdtable = {}
  /\ arfiles = <<>>
  /\ dscall = <<>>

\* No I/O operation fails.
NoFault == [op |-> "none", at |-> 0]

\* Output to a single file, no archive, no replacement of the input, no
\* I/O failure.
SingleOutput ==
  /\ outputfile = TRUE
  /\ replaceinput = FALSE
  /\ fault = NoFault
  /\ archiveroot = <<>>
  /\ ds_maxopenfiles = 0
  /\ curtime = 1

\* Sequences of 1..n elements of S.
SeqsUpTo(S, n) == UNION { [1..k -> S] : k \in 1..n }

\* Pruning runs: 2 Hz records of two qualities of one channel that abut,
\* overlap and duplicate each other, pruned with -Pr or -Ps, with and
\* without -E, at the default and at a user time tolerance.
PruneMsrs ==
  { Msr("BHZ", q, 2, s * (HPTMODULUS \div 2), c, "STEIM2", TRUE) :
      q \in {"D", "Q"}, s \in 0..MaxStart, c \in 1..MaxCnt }

InitPrune ==
  /\ prunedata \in {"r", "s"}
  /\ bestquality \in BOOLEAN
  /\ timetol \in {-1, UserTimeTol}
  /\ starttime = HPTERROR
  /\ endtime = HPTERROR
  /\ splitboundary = "0"
  /\ selections = <<>>
  /\ stagelength = 0
  /\ infile \in SeqsUpTo(PruneMsrs, MaxRecs)
  /\ Start
  /\ SingleOutput

\* Time window runs: two 1 Hz records of two channels around the minute
\* boundary at 60 s, with and without -ts, -te and -Sm.
WinMsrs ==
  { Msr(ch, "D", 1, Sec(s), c, "STEIM2", TRUE) :
      ch \in {"BHE", "BHZ"}, s \in 58..60, c \in 1..3 }

InitWin ==
  /\ prunedata \in {"0", "s"}
  /\ bestquality = TRUE
  /\ timetol = -1
  /\ starttime \in {HPTERROR, Sec(59)}
  /\ endtime \in {HPTERROR, Sec(60)}
  /\ splitboundary \in {"0", "m"}
  /\ selections = <<>>
  /\ stagelength = 0
  /\ infile \in [1..2 -> WinMsrs]
  /\ Start
  /\ SingleOutput

\* Single record runs: one record around the minute boundary at 60 s (the
\* longest reaches the boundary at 120 s), of each kind trimrecord tells
\* apart, under every prune mode, with and without -ts, -te, a selection
\* time window, -Sm and a staging buffer.
OneStarts == {Sec(58), Sec(59), Sec(59) + HPTMODULUS \div 4}

OneMsrs ==
  { Msr("BHZ", "D", r, s, c, e[1], e[2]) :
      r \in {0, 1, 3}, s \in OneStarts, c \in {1, 2, 3, 62},
      e \in {<<"STEIM2", TRUE>>, <<"ASCII", TRUE>>, <<"STEIM2", FALSE>>} }

OneSelections ==
  { <<>>,
    <<[pat |-> "*",
       timewindows |-> <<[starttime |-> Sec(59), endtime |-> Sec(60)]>>]>> }

InitOne ==
  /\ prunedata \in {"0", "r", "s", "e"}
  /\ bestquality = TRUE
  /\ timetol = -1
  /\ starttime \in {HPTERROR, Sec(59), Sec(60)}
  /\ endtime \in {HPTERROR, Sec(59), Sec(60)}
  /\ (starttime # HPTERROR /\ endtime # HPTERROR => starttime <= endtime)
  /\ splitboundary \in {"0", "m"}
  /\ selections \in OneSelections
  /\ stagelength \in {0, 1}
  /\ infile \in { <<m>> : m \in OneMsrs }
  /\ Start
  /\ SingleOutput

\* The worked example: a 100 Hz record of 1000 samples from 0 s,
\* dataselect -ts 00:00:03 -Ps.
InitExample ==
  /\ prunedata = "s"
  /\ bestquality = TRUE
  /\ timetol = -1
  /\ starttime = Sec(3)
  /\ endtime = HPTERROR
  /\ splitboundary = "0"
  /\ selections = <<>>
  /\ stagelength = 0
  /\ infile = <<Msr("BHZ", "D", 100, 0, 1000, "STEIM2", TRUE)>>
  /\ Start
  /\ SingleOutput

\* A record whose sample period truncates to 0 ticks: 2 MHz, so that
\* (hptime_t)(HPTMODULUS / samprate) = 0 while its samples span a tick or two.
FastRate == 2 * HPTMODULUS

InitFast ==
  /\ prunedata \in {"s", "e"}
  /\ bestquality = TRUE
  /\ timetol = -1
  /\ starttime \in {HPTERROR, Sec(59) + 1}
  /\ endtime \in {HPTERROR, Sec(59), Sec(59) + 1}
  /\ (starttime # HPTERROR /\ endtime # HPTERROR => starttime <= endtime)
  /\ splitboundary = "0"
  /\ selections = <<>>
  /\ stagelength = 0
  /\ infile \in { <<Msr("BHZ", "D", FastRate, Sec(59), c, "STEIM2", TRUE)>> : c \in {3, 5} }
  /\ Start
  /\ SingleOutput
\* The tie-break example: two 100 Hz records of one channel and quality,
\* R1 = [0 s, 10 s] and R2 = [5 s, 15 s], dataselect -Ps.
TieExample ==
  <<Msr("BHZ", "D", 100, 0, 1001, "STEIM2", TRUE),
    Msr("BHZ", "D", 100, Sec(5), 1001, "STEIM2", TRUE)>>

InitTie ==
  /\ prunedata = "s"
  /\ bestquality = TRUE
  /\ timetol = -1
  /\ starttime = HPTERROR
  /\ endtime = HPTERROR
  /\ splitboundary = "0"
  /\ selections = <<>>
  /\ stagelength = 0
  /\ infile = TieExample
  /\ Start
  /\ SingleOutput

Init == InitPrune \/ InitWin \/ InitTie

InitRec == InitOne \/ InitExample \/ InitFast

Next ==
  \/ ReadRecord
  \/ EndOfFiles
  \/ PruneTraces
  \/ ReconcileTracetimes
  \/ WriteTraces
  \/ WriteList
  \/ WriteEnd

Spec == Init /\ [][Next]_vars

SpecRec == InitRec /\ [][Next]_vars

TypeOK ==
  /\ phase \in {"read", "prune", "reconcile", "write", "emit", "done"}
  /\ fpos \in 0..Len(infile)

-----------------------------------------------------------------------------
(* sortrecmap() on its own: every chain of up to MaxSortLen Records         *)

\* A Record of the chain: offset is its place in the chain handed in.
SortRecord(at, start, newstart) ==
  [offset |-> at, stageoffset |-> -1, reclen |-> 512,
   starttime |-> start, endtime |-> start, quality |-> "D",
   selectstart |-> HPTERROR, selectend |-> HPTERROR,
   newstart |-> newstart, newend |-> HPTERROR]

SortChains ==
  { <<>> } \cup
  UNION { { [n \in 1..k |-> SortRecord(n, ks[n][1], ks[n][2])] :
              ks \in [1..k -> (0..MaxSortKey) \X {HPTERROR, 1}] } :
          k \in 1..MaxSortLen }

InitSort ==
  /\ prunedata = "r"
  /\ bestquality = TRUE
  /\ timetol = -1
  /\ starttime = HPTERROR
  /\ endtime = HPTERROR
  /\ splitboundary = "0"
  /\ selections = <<>>
  /\ stagelength = 0
  /\ infile = <<>>
  /\ fpos = 0
  /\ stageoffset = 0
  /\ stagefull = FALSE
  /\ mstl = <<>>
  /\ written = <<>>
  /\ recordbuf = ZeroBytes
  /\ phase = "sort"
  /\ sortin \in { RecordMapOf(c) : c \in SortChains }
  /\ sortout = RecordMapOf(<<>>)
  /\ wid = 0
  /\ errflag = 0
  /\ infp = FALSE
  /\ totalrecsout = 0
  /\ totalbytesout = 0
  /\ replaced = <<>>
  /\ exitcode = -1
  /\ wlog = <<>>
  /\ run = 1
  /\ ds_openfilecount = 0
  /\ fdtable = {}
  /\ arfiles = <<>>
  /\ dscall = <<>>
  /\ SingleOutput

SortRecMap ==
  /\ phase = "sort"
  /\ sortout' = sortrecmap(sortin)
  /\ phase' = "sorted"
  /\ UNCHANGED <<cfgvars, fpos, stageoffset, stagefull, mstl, written, recordbuf,
                 sortin, wrvars, dsvars>>

NextSort == SortRecMap

SpecSort == InitSort /\ [][NextSort]_vars

-----------------------------------------------------------------------------
(* Properties                                                              *)

\* Effective start time of a Record: newstart if set, else starttime.
EffStart(rec) == IF rec.newstart # HPTERROR THEN rec.newstart ELSE rec.starttime

\* Effective end time of a Record: newend if set, else endtime.
EffEnd(rec) == IF rec.newend # HPTERROR THEN rec.newend ELSE rec.endtime

\* C4: sortrecmap leaves a chain that is a permutation of the chain handed
\* in, in non-decreasing order of effective start time, with Records of
\* equal effective start in their input order, and first and last naming
\* the head and the tail of the sorted chain (0 and 0 for the empty chain).
C4_SortCorrect ==
  phase = "sorted" =>
    LET in == sortin.recs
        out == sortout.recs
    IN /\ Len(out) = Len(in)
       /\ \A n \in 1..Len(in) : \E m \in 1..Len(out) : out[m] = in[n]
       /\ \A n \in 1..Len(out) : \A m \in 1..Len(out) :
            n < m => /\ EffStart(out[n]) <= EffStart(out[m])
                     /\ (EffStart(out[n]) = EffStart(out[m])
                           => out[n].offset < out[m].offset)
       /\ sortout.first = (IF out = <<>> THEN 0 ELSE out[1].offset)
       /\ sortout.last = (IF out = <<>> THEN 0 ELSE out[Len(out)].offset)

\* A chain of five Records, out of order and with equal keys the other way
\* round in the input, has been sorted.
C4_Witness ==
  /\ phase = "sorted"
  /\ Len(sortin.recs) = 5
  /\ \E n \in 1..4 : EffStart(sortin.recs[n]) > EffStart(sortin.recs[n + 1])
  /\ \E n \in 1..5 : \E m \in 1..5 :
       /\ n < m
       /\ EffStart(sortin.recs[n]) = EffStart(sortin.recs[m])
       /\ sortin.recs[n].newstart # sortin.recs[m].newstart
  /\ sortout.recs # sortin.recs


\* Rank of a quality letter: R < D < Q < M.
QualRank(q) == CASE q = "R" -> 1 [] q = "D" -> 2 [] q = "Q" -> 3 [] q = "M" -> 4

\* The data record a Record was read from.
Source(rec) == infile[rec.offset]

\* Record h covers the effective interval of Record w within tolerance tol.
Covers(h, w, tol) ==
  /\ EffStart(w) >= EffStart(h) - tol
  /\ EffEnd(w) <= EffEnd(h) + tol

\* The Records of the write lists: the contributing Records of the run.
Contributing ==
  UNION { { mstl[i].list[m] : m \in 1..Len(mstl[i].list) } : i \in 1..Len(mstl) }

\* C1: with best quality prioritisation and -Pr or -Ps, when the run is
\* over no record was written whose effective interval is covered, within
\* the time tolerance, by a contributing Record of a higher quality with
\* the same channel and a tolerable sample rate.
C1_PriorityMonotone ==
  (phase = "done" /\ bestquality /\ prunedata \in {"r", "s"}) =>
    \A n \in 1..Len(written) : \A h \in Contributing :
      LET w == written[n].rec
          tol == HpTimeTol(HpDelta(Source(w).samprate))
      IN ~ /\ Source(h).chan = Source(w).chan
           /\ MS_ISRATETOLERABLE(Source(h).samprate, Source(w).samprate)
           /\ QualRank(h.quality) > QualRank(w.quality)
           /\ Covers(h, w, tol)

\* A run with best quality prioritisation in which a quality D record of
\* the input lay inside a quality Q record: the Q record was written, the
\* D record was not.
C1_Witness ==
  /\ phase = "done"
  /\ bestquality
  /\ \E a \in 1..Len(infile) : \E b \in 1..Len(infile) :
       /\ infile[a].qual = "D"
       /\ infile[b].qual = "Q"
       /\ infile[b].starttime <= infile[a].starttime
       /\ msr_endtime(infile[a]) <= msr_endtime(infile[b])
       /\ \E n \in 1..Len(written) : written[n].rec.offset = b
       /\ \A n \in 1..Len(written) : written[n].rec.offset # a


\* Time of the last sample of emitted bytes.
BytesEnd(bytes) ==
  msr_endtime([starttime |-> bytes.starttime, samprate |-> bytes.samprate,
               samplecnt |-> bytes.samplecnt])

\* C2: every record emitted by writetraces holds samples of the data record
\* its Record was read from, a contiguous run of them, no more than the
\* original count, and its time interval lies within the original
\* [starttime, endtime] of that data record.
C2_NoWidening ==
  \A n \in 1..Len(written) :
    LET e == written[n]
        src == Source(e.rec)
    IN /\ e.bytes.offset = e.rec.offset
       /\ e.bytes.first >= 1
       /\ e.bytes.first + e.bytes.samplecnt - 1 <= src.samplecnt
       /\ e.bytes.samplecnt <= src.samplecnt
       /\ src.starttime <= e.bytes.starttime
       /\ BytesEnd(e.bytes) <= msr_endtime(src)

\* A record was emitted after trimrecord removed samples from it.
C2_Witness ==
  \E n \in 1..Len(written) :
    /\ written[n].bytes.samplecnt > 0
    /\ written[n].bytes.samplecnt < Source(written[n].rec).samplecnt


\* The Records of the record maps of the segments.
MapRecords ==
  UNION { UNION { { mstl[i].segs[j].recmap[m] :
                      m \in 1..Len(mstl[i].segs[j].recmap) } :
                  j \in 1..Len(mstl[i].segs) } :
          i \in 1..Len(mstl) }

\* I3 for one Record: set bounds lie within [starttime, endtime] and, when
\* both are set, newstart <= newend.
BoundsValid(rec) ==
  /\ (rec.newstart # HPTERROR =>
        rec.starttime <= rec.newstart /\ rec.newstart <= rec.endtime)
  /\ (rec.newend # HPTERROR =>
        rec.starttime <= rec.newend /\ rec.newend <= rec.endtime)
  /\ (rec.newstart # HPTERROR /\ rec.newend # HPTERROR =>
        rec.newstart <= rec.newend)

\* C3: after prunetraces followed by reconcile_tracetimes every contributing
\* Record with newstart or newend set satisfies I3, at the default and at a
\* user time tolerance.
C3_PruningClosed ==
  (phase = "write" /\ prunedata \in {"r", "s"}) =>
    \A rec \in MapRecords : rec.reclen # 0 => BoundsValid(rec)

\* After pruning and reconciliation a contributing Record carries a bound
\* that trimtrace set.
C3_Witness ==
  /\ phase = "write"
  /\ prunedata = "s"
  /\ \E rec \in MapRecords :
       /\ rec.reclen # 0
       /\ (rec.newstart # HPTERROR \/ rec.newend # HPTERROR)
       /\ BoundsValid(rec)


\* Emitted bytes cross a split boundary: the first sample lies before a
\* boundary of the chosen granularity, the last sample at or after it.
CrossesBoundary(bytes) ==
  (bytes.starttime \div SplitUnit) < (BytesEnd(bytes) \div SplitUnit)

\* C5: with splitting enabled no record emitted by writetraces crosses a
\* boundary of the chosen granularity, in every prune mode and also when
\* trimrecord skips the trim.
C5_SplitComplete ==
  splitboundary # "0" =>
    \A n \in 1..Len(written) : ~ CrossesBoundary(written[n].bytes)

\* With -Sm a record that crossed the minute boundary was emitted in pieces.
C5_Witness ==
  /\ splitboundary = "m"
  /\ Len(written) >= 2
  /\ \E n \in 1..Len(infile) :
       infile[n].starttime \div SplitUnit < msr_endtime(infile[n]) \div SplitUnit
  /\ \A n \in 1..Len(written) : ~ CrossesBoundary(written[n].bytes)


\* The Record of a data record as ingest holds it before the split.
Ingested(msr) == InducedBounds(SelectLimits(NewRecord(msr, 1), msr))

\* Number of split boundaries a Record crosses, from its effective start.
Crossings(rec) == (rec.endtime \div SplitUnit) - (EffStart(rec) \div SplitUnit)

\* The i-th split boundary after the effective start of a Record.
Boundary(rec, i) == ((EffStart(rec) \div SplitUnit) + i) * SplitUnit

\* Ingest induces no bound on the Record of a data record from the global
\* times or the selection.
NoInducedBounds(msr) ==
  Ingested(msr).newstart = HPTERROR /\ Ingested(msr).newend = HPTERROR

StartOrdered(recmap) ==
  \A m \in 1..(Len(recmap) - 1) : EffStart(recmap[m]) <= EffStart(recmap[m + 1])

\* C7: while and after readfiles processes the records of the input, the
\* Records of every segment's record map have non-decreasing effective
\* start times.
C7_OrderAfterIngest ==
  phase = "read" =>
    \A i \in 1..Len(mstl) : \A j \in 1..Len(mstl[i].segs) :
      StartOrdered(mstl[i].segs[j].recmap)

\* Ingest has appended to and prepended to a segment: a record map of three
\* Records the file held in another order.
C7_Witness ==
  /\ phase = "read"
  /\ fpos = Len(infile)
  /\ \E i \in 1..Len(mstl) : \E j \in 1..Len(mstl[i].segs) :
       LET recmap == mstl[i].segs[j].recmap
       IN /\ Len(recmap) = 3
          /\ recmap[1].offset = 2
          /\ recmap[2].offset = 1
          /\ recmap[3].offset = 3
          /\ StartOrdered(recmap)


\* The segments of the trace list.
Segments ==
  UNION { { mstl[i].segs[j] : j \in 1..Len(mstl[i].segs) } : i \in 1..Len(mstl) }

\* The contributing Records of a record map.
ContributingOf(recmap) ==
  { recmap[m] : m \in { n \in 1..Len(recmap) : recmap[n].reclen > 0 } }

\* Effective interval of a Record intersected with its selection limits.
SelEffStart(rec) ==
  IF rec.selectstart # HPTERROR /\ rec.selectstart > EffStart(rec)
    THEN rec.selectstart ELSE EffStart(rec)

SelEffEnd(rec) ==
  IF rec.selectend # HPTERROR /\ rec.selectend < EffEnd(rec)
    THEN rec.selectend ELSE EffEnd(rec)

\* C8 as stated: after reconcile_tracetimes every segment with a
\* contributing Record spans the union of the effective intervals of its
\* contributing Records, each intersected with its selectstart/selectend.
C8_BoundsWithSelection ==
  (phase = "write" /\ prunedata # "0") =>
    \A seg \in Segments :
      LET c == ContributingOf(seg.recmap)
      IN c # {} =>
           /\ \E r \in c : seg.starttime = SelEffStart(r)
           /\ \A r \in c : seg.starttime <= SelEffStart(r)
           /\ \E r \in c : seg.endtime = SelEffEnd(r)
           /\ \A r \in c : seg.endtime >= SelEffEnd(r)

\* C8 amended: after reconcile_tracetimes every segment with a contributing
\* Record starts at the start of its first contributing Record (newstart
\* if set and later than starttime, else starttime) and ends at the end of
\* its last contributing Record (newend if set and earlier than endtime,
\* else endtime); selectstart and selectend play no part.
C8_SegmentBounds ==
  (phase = "write" /\ prunedata # "0") =>
    \A seg \in Segments :
      ContributingOf(seg.recmap) # {} =>
        LET first == seg.recmap[FirstContributing(seg.recmap)]
            last == seg.recmap[LastContributing(seg.recmap)]
        IN /\ seg.starttime = (IF first.newstart # HPTERROR /\
                                  first.newstart > first.starttime
                                 THEN first.newstart ELSE first.starttime)
           /\ seg.endtime = (IF last.newend # HPTERROR /\
                                last.newend < last.endtime
                               THEN last.newend ELSE last.endtime)

\* After -Pr and reconciliation a segment starts at the start of a Record
\* whose selection limit lies later, inside the Record.
C8_Witness ==
  /\ phase = "write"
  /\ prunedata = "r"
  /\ \E seg \in Segments : \E r \in ContributingOf(seg.recmap) :
       /\ r.selectstart # HPTERROR
       /\ r.selectstart > r.starttime
       /\ r.newstart = HPTERROR
       /\ seg.starttime = r.starttime


\* The global start time admits a data record: it is unset, or the record
\* starts after it, or the record spans it.
AdmitsStart(msr) ==
  \/ starttime = HPTERROR
  \/ msr.starttime > starttime
  \/ (msr.starttime <= starttime /\ starttime <= msr_endtime(msr))

\* The global end time admits a data record: it is unset, or the record
\* ends before it, or the record spans it.
AdmitsEnd(msr) ==
  \/ endtime = HPTERROR
  \/ msr_endtime(msr) < endtime
  \/ (msr.starttime <= endtime /\ endtime <= msr_endtime(msr))

StrictestStart(rec) ==
  IF starttime # HPTERROR /\ rec.selectstart # HPTERROR
    THEN Max2(starttime, rec.selectstart)
  ELSE IF rec.selectstart # HPTERROR THEN rec.selectstart
  ELSE starttime

\* The strictest end: min of the global end time and the Record's selectend.
StrictestEnd(rec) ==
  IF endtime # HPTERROR /\ rec.selectend # HPTERROR
    THEN Min2(endtime, rec.selectend)
  ELSE IF rec.selectend # HPTERROR THEN rec.selectend
  ELSE endtime

\* The record map of the one data record of a single record run, once it
\* is read and admitted: the first Record carries the newstart ingest
\* induced, the last one the newend.
OneRecordRead ==
  /\ phase = "read"
  /\ Len(infile) = 1
  /\ fpos = 1
  /\ mstl # <<>>

\* The worked example ran to its end.
ExampleDone ==
  /\ phase = "done"
  /\ infile = <<Msr("BHZ", "D", 100, 0, 1000, "STEIM2", TRUE)>>
  /\ prunedata = "s"
  /\ starttime = Sec(3)

ExampleOutput ==
  /\ Len(written) = 1
  /\ written[1].bytes.starttime = Sec(3)
  /\ written[1].bytes.samplecnt = 700
  /\ written[1].bytes.first = 301

\* C10 as stated: with -Ps or -Pe ingest sets newstart to the strictest
\* start if and only if that lies strictly inside the record's interval,
\* and newend to the strictest end likewise; with no prune mode or -Pr it
\* sets neither; the worked example emits one record of 700 samples
\* starting at 3 s.
C10_StrictlyInside ==
  /\ OneRecordRead =>
       LET recmap == mstl[1].segs[1].recmap
           first == recmap[1]
           last == recmap[Len(recmap)]
           v == StrictestStart(first)
           w == StrictestEnd(last)
       IN IF prunedata \in {"s", "e"}
            THEN /\ IF v # HPTERROR /\ first.starttime < v /\ v < first.endtime
                      THEN first.newstart = v ELSE first.newstart = HPTERROR
                 /\ IF w # HPTERROR /\ last.starttime < w /\ w < last.endtime
                      THEN last.newend = w ELSE last.newend = HPTERROR
            ELSE first.newstart = HPTERROR /\ last.newend = HPTERROR
  /\ ExampleDone => ExampleOutput

\* C10 amended: with -Ps or -Pe ingest sets newstart to the strictest start
\* v if and only if starttime < v <= endtime, and newend to the strictest
\* end w if and only if starttime <= w < endtime; with no prune mode or -Pr
\* it sets neither; the worked example emits one record of 700 samples
\* starting at 3 s.
C10_InducedBounds ==
  /\ OneRecordRead =>
       LET recmap == mstl[1].segs[1].recmap
           first == recmap[1]
           last == recmap[Len(recmap)]
           v == StrictestStart(first)
           w == StrictestEnd(last)
       IN IF prunedata \in {"s", "e"}
            THEN /\ IF v # HPTERROR /\ first.starttime < v /\ v <= first.endtime
                      THEN first.newstart = v ELSE first.newstart = HPTERROR
                 /\ IF w # HPTERROR /\ last.starttime <= w /\ w < last.endtime
                      THEN last.newend = w ELSE last.newend = HPTERROR
            ELSE first.newstart = HPTERROR /\ last.newend = HPTERROR
  /\ ExampleDone => ExampleOutput

\* With -Ps and -ts at the time of the last sample of the record, ingest
\* set newstart to that time.
C10_Witness ==
  /\ OneRecordRead
  /\ prunedata = "s"
  /\ selections = <<>>
  /\ starttime = mstl[1].segs[1].recmap[1].endtime
  /\ starttime > mstl[1].segs[1].recmap[1].starttime
  /\ mstl[1].segs[1].recmap[1].newstart = starttime


-----------------------------------------------------------------------------
(* Selection runs: one 1 Hz record and selections of one or two time        *)
(* windows, in one entry or in two, under every prune mode.                 *)

MaxSelTime == 4     \* latest selection window time, seconds

SelWindows ==
  { [starttime |-> Sec(p[1]), endtime |-> Sec(p[2])] :
      p \in { q \in (0..MaxSelTime) \X (0..MaxSelTime) : q[1] < q[2] } }

SelSelections ==
  { <<[pat |-> "*", timewindows |-> <<w>>]>> : w \in SelWindows }
  \cup { <<[pat |-> "*", timewindows |-> <<w1, w2>>]>> :
           w1 \in SelWindows, w2 \in SelWindows }
  \cup { <<[pat |-> "BHZ", timewindows |-> <<w1>>],
           [pat |-> "*", timewindows |-> <<w2>>]>> :
           w1 \in SelWindows, w2 \in SelWindows }

SelMsrs ==
  { Msr("BHZ", "D", 1, Sec(s), c, "STEIM2", TRUE) : s \in 1..2, c \in 2..3 }

InitSel ==
  /\ prunedata \in {"0", "r", "s", "e"}
  /\ bestquality = TRUE
  /\ timetol = -1
  /\ starttime = HPTERROR
  /\ endtime = HPTERROR
  /\ splitboundary = "0"
  /\ selections \in SelSelections
  /\ stagelength = 0
  /\ infile \in { <<m>> : m \in SelMsrs }
  /\ Start
  /\ SingleOutput

SpecSel == InitSel /\ [][Next]_vars

\* The time windows of the selections that match a data record: those of
\* the entries matching its source name that the record lies in or crosses.
MatchingWindows(msr) ==
  UNION { { selections[i].timewindows[k] :
              k \in { k \in 1..Len(selections[i].timewindows) :
                        WindowMatches(selections[i].timewindows[k],
                                      msr.starttime, msr_endtime(msr)) } } :
          i \in { i \in 1..Len(selections) : GlobMatch(msr.chan, selections[i].pat) } }

\* The first matching window selects the whole data record.
FirstMatchSelectsAll(msr) ==
  LET m == ms_matchselect(selections, 1, msr.chan, msr.starttime, msr_endtime(msr))
      w == selections[m.sp].timewindows[m.stp]
  IN m.sp # 0 /\ w.starttime <= msr.starttime /\ w.endtime >= msr_endtime(msr)

LatestStart(ws) == CHOOSE t \in { w.starttime : w \in ws } : \A w \in ws : w.starttime <= t

EarliestEnd(ws) == CHOOSE t \in { w.endtime : w \in ws } : \A w \in ws : w.endtime >= t

\* C11: when several selection time windows match a record that the first
\* match does not select completely, the Record's selectstart and selectend
\* are the latest start and the earliest end of the matching windows (their
\* intersection), and both are unset when the matching windows are disjoint.
C11_SelectIntersection ==
  \A rec \in MapRecords :
    LET ws == MatchingWindows(Source(rec))
    IN (Cardinality(ws) >= 2 /\ ~ FirstMatchSelectsAll(Source(rec))) =>
         IF LatestStart(ws) <= EarliestEnd(ws)
           THEN /\ rec.selectstart = LatestStart(ws)
                /\ rec.selectend = EarliestEnd(ws)
           ELSE /\ rec.selectstart = HPTERROR
                /\ rec.selectend = HPTERROR

\* A Record was ingested that two different time windows match, the first
\* of which does not select it completely, and findselectlimits set its
\* selection limits.
C11_Witness ==
  \E rec \in MapRecords :
    /\ Cardinality(MatchingWindows(Source(rec))) = 2
    /\ ~ FirstMatchSelectsAll(Source(rec))
    /\ rec.selectstart # HPTERROR
    /\ rec.selectend # HPTERROR


\* The input is two overlapping records of one channel, quality and rate
\* with the same number of samples, the first starting before the second:
\* two single-record segments of equal length.
EqualLengthOverlap ==
  /\ Len(infile) = 2
  /\ infile[1].chan = infile[2].chan
  /\ infile[1].qual = infile[2].qual
  /\ infile[1].samprate = infile[2].samprate
  /\ infile[1].samplecnt = infile[2].samplecnt
  /\ infile[1].starttime < infile[2].starttime
  /\ msr_endtime(infile[1]) >= infile[2].starttime

\* C12: with -Ps and the default tolerance, of two overlapping equal-length
\* single-record segments of one channel and quality the earlier one is
\* emitted unchanged with no trim bound and the later one is emitted trimmed
\* with newstart after the end of the earlier; in the example (R1 = [0 s,
\* 10 s], R2 = [5 s, 15 s], 100 Hz) R2 is emitted with 500 samples.
C12_LaterTrimmed ==
  (phase = "done" /\ prunedata = "s" /\ timetol = -1 /\ EqualLengthOverlap) =>
    /\ Len(written) = 2
    /\ \A n \in 1..Len(written) :
         LET e == written[n] IN
           /\ e.rec.offset = 1 =>
                /\ e.rec.newstart = HPTERROR
                /\ e.rec.newend = HPTERROR
                /\ e.bytes.samplecnt = infile[1].samplecnt
                /\ e.bytes.starttime = infile[1].starttime
           /\ e.rec.offset = 2 =>
                /\ e.rec.newstart # HPTERROR
                /\ e.bytes.starttime > msr_endtime(infile[1])
                /\ e.bytes.samplecnt < infile[2].samplecnt
                /\ (infile = TieExample => e.bytes.samplecnt = 500)

\* The example was run to its end: prunetraces bounded both records and
\* both were emitted.
C12_Witness ==
  /\ phase = "done"
  /\ infile = TieExample
  /\ Len(written) = 2
  /\ \E n \in 1..2 : written[n].rec.newend # HPTERROR
  /\ \E n \in 1..2 : written[n].rec.newstart # HPTERROR


-----------------------------------------------------------------------------
(* Archive runs: the records of a write list handed to the archives one    *)
(* after the other, the clock advancing between records.                   *)

\* Number of records handed to the archives.
MaxArchRecs == 53

\* Seconds the clock advances at once: longer than the idle timeout.
IdlePeriod == 61

\* Latest clock reading.
MaxClock == 123

\* One-sample 1 Hz records, one starting each second: BHZ but for the second
\* one, BHE.
ArchRecs ==
  [k \in 1..MaxArchRecs |->
     Msr(IF k = 2 THEN "BHE" ELSE "BHZ", "D", 1, Sec(k - 1), 1, "STEIM2", TRUE)]

\* addarchive(): a new archive, idle timeout 60 seconds, no group.
NewArchive(root, path) ==
  [root |-> root, path |-> path, idletimeout |-> 60, grouproot |-> <<>>]

\* -A 'A/%S': a file per second of the minute.
ArchiveA == NewArchive("A", <<[code |-> "S", def |-> TRUE]>>)

\* -A 'B/%c.#S': a file per channel, named with the second of the first
\* record.
ArchiveB ==
  NewArchive("B", <<[code |-> "c", def |-> TRUE], [code |-> "S", def |-> FALSE]>>)

ArchChains ==
  { <<ArchiveA>>, <<ArchiveB>>, <<ArchiveA, ArchiveB>>, <<ArchiveB, ArchiveA>> }

InitArch ==
  /\ prunedata = "0"
  /\ bestquality = TRUE
  /\ timetol = -1
  /\ starttime = HPTERROR
  /\ endtime = HPTERROR
  /\ splitboundary = "0"
  /\ selections = <<>>
  /\ stagelength = 0
  /\ infile = ArchRecs
  /\ fpos = 0
  /\ stageoffset = 0
  /\ stagefull = FALSE
  /\ mstl = <<>>
  /\ written = <<>>
  /\ recordbuf = ZeroBytes
  /\ phase = "archive"
  /\ sortin = RecordMapOf(<<>>)
  /\ sortout = RecordMapOf(<<>>)
  /\ wid = 0
  /\ errflag = 0
  /\ infp = FALSE
  /\ totalrecsout = 0
  /\ totalbytesout = 0
  /\ replaced = <<>>
  /\ exitcode = -1
  /\ wlog = <<>>
  /\ run = 1
  /\ ds_openfilecount = 0
  /\ fdtable = {}
  /\ arfiles = <<>>
  /\ dscall = <<>>
  /\ outputfile = FALSE
  /\ replaceinput = FALSE
  /\ fault \in { NoFault, [op |-> "aopen", at |-> 1] }
  /\ archiveroot \in ArchChains
  /\ ds_maxopenfiles = 50
  /\ curtime = 1

\* The next record is written to every archive.
ArchiveRecord ==
  /\ phase = "archive"
  /\ fpos < Len(infile)
  /\ LET r == wt_archive(ArchState, 1, RecordBytes(fpos + 1), <<>>)
     IN /\ archiveroot' = r.a.streams
        /\ ds_openfilecount' = r.a.openfilecount
        /\ fdtable' = r.a.fdtable
        /\ arfiles' = r.a.files
        /\ dscall' = r.calls
  /\ fpos' = fpos + 1
  /\ UNCHANGED <<cfgvars, stageoffset, stagefull, mstl, phase, written, recordbuf,
                 sortvars, wrvars, ds_maxopenfiles, curtime>>

\* Time passes.
Tick ==
  /\ phase = "archive"
  /\ curtime + IdlePeriod <= MaxClock
  /\ curtime' = curtime + IdlePeriod
  /\ UNCHANGED <<cfgvars, fpos, stageoffset, stagefull, mstl, phase, written,
                 recordbuf, sortvars, wrvars, archiveroot, ds_maxopenfiles,
                 ds_openfilecount, fdtable, arfiles, dscall>>

NextArch == ArchiveRecord \/ Tick

SpecArch == InitArch /\ [][NextArch]_vars

\* The layout of the archive a file belongs to.
ArchiveOf(file) == CHOOSE ds \in { archiveroot[d] : d \in 1..Len(archiveroot) } :
                     ds.root = file[1]

\* The defining flag expansions of a record written to an archive file.
DefinitionOf(e) == Definition(ArchiveOf(e.file).path, 1, e.bytes)

\* The first record written to the archive of entry k of arfiles with the
\* defining flag expansions of entry k.
FirstOfGroup(k) ==
  CHOOSE i \in 1..k :
    /\ arfiles[i].file[1] = arfiles[k].file[1]
    /\ DefinitionOf(arfiles[i]) = DefinitionOf(arfiles[k])
    /\ \A j \in 1..(i - 1) :
         ~ (arfiles[j].file[1] = arfiles[k].file[1] /\
            DefinitionOf(arfiles[j]) = DefinitionOf(arfiles[k]))

\* C18: in one archive, every record is written to the file named from the
\* first record written with the same defining flag expansions: records
\* with equal defining expansions share a file, and its name carries the
\* non-defining flag values of the first of them, idle closes included.
C18_ArchiveGrouping ==
  \A k \in 1..Len(arfiles) :
    arfiles[k].file =
      FileName(ArchiveOf(arfiles[k].file), arfiles[FirstOfGroup(k)].bytes)

\* A record was written to a group whose file had been closed as idle since
\* the first record with these defining expansions was written.
C18_Witness ==
  \E k \in 1..Len(arfiles) :
    /\ FirstOfGroup(k) # k
    /\ curtime > IdlePeriod
    /\ \E d \in 1..Len(archiveroot) :
         /\ archiveroot[d].root = arfiles[k].file[1]
         /\ \E c \in 1..Len(archiveroot[d].path) : ~ archiveroot[d].path[c].def

\* C19: a group file opened while ds_openfilecount + 10 > ds_maxopenfiles
\* is opened after the eviction closed at least one file, and the number of
\* open archive files is never above ds_maxopenfiles.
C19_OpenFileCap ==
  /\ \A d \in 1..Len(dscall) :
       (dscall[d].opened /\ dscall[d].over) => dscall[d].evicted >= 1
  /\ ds_openfilecount <= ds_maxopenfiles
  /\ Cardinality(fdtable) <= ds_maxopenfiles

\* A group file was opened with the open file limit reached.
C19_Witness ==
  \E d \in 1..Len(dscall) : dscall[d].opened /\ dscall[d].over


-----------------------------------------------------------------------------
(* The write pass, Record by Record                                        *)

\* The Record has a new start after its new end, or a new start or a new
\* end outside of [starttime, endtime].
InvalidBounds(r) ==
  \/ (r.newstart # HPTERROR /\ r.newend # HPTERROR /\ r.newstart > r.newend)
  \/ (r.newstart # HPTERROR /\ ~ (r.starttime <= r.newstart /\ r.newstart <= r.endtime))
  \/ (r.newend # HPTERROR /\ ~ (r.starttime <= r.newend /\ r.newend <= r.endtime))

\* Entry k of wlog is followed by the entry of the next Record of its list,
\* when the list has a next Record.
NextRecordHandled(k) ==
  wlog[k].n < Len(mstl[wlog[k].id].list) =>
    /\ k < Len(wlog)
    /\ wlog[k + 1].id = wlog[k].id
    /\ wlog[k + 1].n = wlog[k].n + 1

-----------------------------------------------------------------------------
(* Runs with failing I/O: records of two channels, the first and the last  *)
(* cut by -ts and -te when pruning at the sample level, written to an      *)
(* output file, to archives and over the input file, with one I/O          *)
(* operation failing at one record.                                        *)

\* Number of records in the input file of these runs.
MaxIORecs == 3

\* Record k of the input file: 1 Hz, 3 samples, starting at 3 (k - 1) s.
IOMsr(k, chan, enc, ok) ==
  LET m == Msr(chan, "D", 1, Sec(3 * (k - 1)), 3, enc, TRUE)
  IN IF ok THEN m ELSE Corrupt(m)

\* The kinds of record: decodable, not decodable, of an unsupported encoding.
IOKinds == { <<"STEIM2", TRUE>>, <<"STEIM2", FALSE>>, <<"ASCII", TRUE>> }

IOFiles ==
  { [k \in 1..n |-> IF k = MaxIORecs
                      THEN IOMsr(k, "BHZ", "STEIM2", TRUE)
                      ELSE IOMsr(k, c[k], e[k][1], e[k][2])] :
      n \in 2..MaxIORecs, c \in [1..(MaxIORecs - 1) -> {"BHE", "BHZ"}],
      e \in [1..(MaxIORecs - 1) -> IOKinds] }

\* The I/O operations of writetraces that can fail at a record.
IOOps == {"infopen", "seek", "read", "owrite", "aopen", "awrite", "ropen", "rwrite"}

IOFaults ==
  {NoFault, [op |-> "oopen", at |-> 0]}
    \cup { [op |-> "ingest", at |-> k] : k \in 1..MaxIORecs }
    \cup { [op |-> o, at |-> k] : o \in IOOps, k \in 1..MaxIORecs }

\* -o alone, -A alone, -o with -rep and -A, -rep alone.
IOSinks ==
  { [o |-> TRUE, r |-> FALSE, a |-> <<>>],
    [o |-> FALSE, r |-> FALSE, a |-> <<ArchiveB>>],
    [o |-> TRUE, r |-> TRUE, a |-> <<ArchiveA>>],
    [o |-> FALSE, r |-> TRUE, a |-> <<>>] }

\* The output options: main sets ds_maxopenfiles when there is an archive.
Sinks(s) ==
  /\ outputfile = s.o
  /\ replaceinput = s.r
  /\ archiveroot = s.a
  /\ ds_maxopenfiles = IF s.a # <<>> THEN 50 ELSE 0
  /\ curtime = 1

InitFault ==
  /\ prunedata \in {"0", "s"}
  /\ bestquality = TRUE
  /\ timetol = -1
  /\ starttime = Sec(1)
  /\ endtime = Sec(7)
  /\ splitboundary = "0"
  /\ selections = <<>>
  /\ stagelength = 0
  /\ infile \in IOFiles
  /\ Start
  /\ fault \in IOFaults
  /\ \E s \in IOSinks : Sinks(s)

\* A record that gets invalid trim bounds (-Ps -tt 1), decodable or not,
\* staged or not, after one that gets none.
InitSkip ==
  /\ prunedata = "s"
  /\ bestquality = TRUE
  /\ timetol = UserTimeTol
  /\ starttime = HPTERROR
  /\ endtime = HPTERROR
  /\ splitboundary = "0"
  /\ selections = <<>>
  /\ stagelength \in {0, 1}
  /\ infile \in { <<Msr("BHZ", "Q", 2, 0, 1, "STEIM2", TRUE), m>> :
                    m \in { Msr("BHZ", "D", 2, Sec(1), 2, "STEIM2", TRUE),
                            Corrupt(Msr("BHZ", "D", 2, Sec(1), 2, "STEIM2", TRUE)) } }
  /\ Start
  /\ fault = NoFault
  /\ \E s \in IOSinks : Sinks(s)

InitIO == InitFault \/ InitSkip

SpecIO == InitIO /\ [][Next]_vars


-----------------------------------------------------------------------------
(* Errors of the write pass                                                *)

\* Number of files a record is written to: the output file, the archives
\* and the replaced input file.
NumSinks ==
  (IF outputfile THEN 1 ELSE 0) + Len(archiveroot) + (IF replaceinput THEN 1 ELSE 0)

\* MSTraceID i has a write list with a Record in it.
HasRecords(i) == mstl[i].haslist /\ mstl[i].list # <<>>

\* C13: when trimrecord reports an unpacking error (-2) for a Record, the
\* untrimmed record is still written to every file configured, the rest of
\* the write list of its ID is skipped, and the write lists of the later
\* IDs are still written.
C13_CodecErrorDegrades ==
  phase = "done" =>
    \A k \in 1..Len(wlog) :
      (wlog[k].trim /\ wlog[k].rv = -2) =>
        /\ wlog[k].nout = NumSinks
        /\ wlog[k].bytes = RecordBytes(wlog[k].rec.offset)
        /\ \A j \in (k + 1)..Len(wlog) : wlog[j].id # wlog[k].id
        /\ \A i \in (wlog[k].id + 1)..Len(mstl) :
             HasRecords(i) => \E j \in (k + 1)..Len(wlog) : wlog[j].id = i

\* trimrecord reported an unpacking error for a Record of a write list that
\* is followed by another Record and by the write list of a later ID.
C13_Witness ==
  /\ phase = "done"
  /\ \E k \in 1..Len(wlog) :
       /\ wlog[k].trim
       /\ wlog[k].rv = -2
       /\ wlog[k].n < Len(mstl[wlog[k].id].list)
       /\ \E i \in (wlog[k].id + 1)..Len(mstl) : HasRecords(i)

\* The record of a Record is of an encoding trimrecord does not trim, or
\* has no blockette 1000.
Untrimmable(rec) ==
  \/ infile[rec.offset].encoding \notin
       {"INT16", "INT32", "FLOAT32", "FLOAT64", "STEIM1", "STEIM2"}
  \/ ~ infile[rec.offset].Blkt1000

\* C14: for a Record with newstart or newend set whose record is of an
\* unsupported encoding or has no blockette 1000, trimrecord returns
\* success without repacking and the bytes writetraces writes are the
\* bytes of the original record, read from the input file or staged.
C14_UnsupportedEncoding ==
  \A k \in 1..Len(wlog) :
    (wlog[k].trim /\ ~ InvalidBounds(wlog[k].rec) /\ Untrimmable(wlog[k].rec)) =>
      /\ wlog[k].rv = 0
      /\ wlog[k].nout = NumSinks
      /\ wlog[k].bytes = RecordBytes(wlog[k].rec.offset)

\* A staged record of an unsupported encoding was to be trimmed.
C14_Witness ==
  \E k \in 1..Len(wlog) :
    /\ wlog[k].trim
    /\ ~ InvalidBounds(wlog[k].rec)
    /\ Untrimmable(wlog[k].rec)
    /\ wlog[k].rec.stageoffset >= 0

\* C16: an open, seek, read or write failure met while a record is written
\* (input file, output file, replaced input file, archive) stops the write
\* pass at that record and the exit code is 1.
C16_IOErrorsSurfaced ==
  phase = "done" =>
    /\ \A k \in 1..Len(wlog) :
         wlog[k].failed \in IOOps => (k = Len(wlog) /\ exitcode = 1)
    /\ (outputfile /\ fault.op = "oopen" /\ mstl # <<>>) => exitcode = 1

\* An archive open or write failed while a record was written.
C16_Witness ==
  /\ phase = "done"
  /\ \E k \in 1..Len(wlog) : wlog[k].failed \in {"aopen", "awrite"}


-----------------------------------------------------------------------------
(* Order of the phases                                                     *)

\* Place of a position of main() in the order of the phases: ingest, prune,
\* reconcile, regroup, sort and write, end.
PhaseRank(p) ==
  CASE p = "read" -> 1
    [] p = "prune" -> 2
    [] p = "reconcile" -> 3
    [] p = "write" -> 4
    [] p = "emit" -> 5
    [] p = "done" -> 6

\* A record was written to a file at some point.
SomeWritten == written # <<>> \/ arfiles # <<>> \/ replaced # <<>>

\* The step handles a write list that is sorted first.
SortsList == phase = "emit" /\ wid' # wid /\ (prunedata = "r" \/ prunedata = "s")

\* The phases follow each other in their order, nothing is written until
\* the input is read to its end, and a failure to read the input ends the
\* run with exit code 1 and nothing written.
PhasesInOrder ==
  /\ PhaseRank(phase) <= PhaseRank(phase')
  /\ SomeWritten' => (fpos = Len(infile) /\ PhaseRank(phase) >= 5)
  /\ (fault.op = "ingest" /\ fault.at <= Len(infile) /\ phase' = "done") =>
       (exitcode' = 1 /\ ~ SomeWritten')

\* C17 as stated: the phases happen strictly in the order ingest, prune,
\* reconcile, regroup, sort, write: every sort comes before every write; no
\* byte is written before the input is read to its end and a failure to
\* read the input ends the run with exit code 1 and nothing written.
C17_SortBeforeWrite ==
  [][PhasesInOrder /\ (SortsList => ~ SomeWritten)]_vars

\* C17: the phases happen in the order ingest, prune, reconcile, regroup,
\* then for each write list in turn its sort followed by the write of its
\* Records in the sorted order; no byte is written before the input is read
\* to its end and a failure to read the input ends the run with exit code 1
\* and nothing written.
C17_PhaseOrder ==
  [][/\ PhasesInOrder
     /\ SortsList =>
          \A k \in (Len(wlog) + 1)..Len(wlog') :
            /\ wlog'[k].id = wid
            /\ wlog'[k].n = k - Len(wlog)
            /\ wlog'[k].rec = sortrecmap(RecordMapOf(mstl[wid].list)).recs[k - Len(wlog)]
    ]_vars

\* A run that pruned, sorted and wrote the write lists of two IDs.
C17_Witness ==
  /\ phase = "done"
  /\ exitcode = 0
  /\ prunedata = "s"
  /\ \E j, k \in 1..Len(wlog) :
       /\ wlog[j].id # wlog[k].id
       /\ wlog[j].nout > 0
       /\ wlog[k].nout > 0


-----------------------------------------------------------------------------
(* Runs on the output of a run: the records a run wrote to its output file *)
(* are the input file of a second run with the same options.               *)

\* Latest start of a record of these runs, in half seconds.
MaxRerunStart == 2

\* Largest number of samples of a record of these runs.
MaxRerunCnt == 2

\* Largest number of records of the input file of the first run.
MaxRerunRecs == 3

\* 2 Hz records of two qualities of one channel.
RerunMsrs ==
  { Msr("BHZ", q, 2, s * (HPTMODULUS \div 2), c, "STEIM2", TRUE) :
      q \in {"D", "Q"}, s \in 0..MaxRerunStart, c \in 1..MaxRerunCnt }

\* dataselect -ts 0.5 s -te 1 s under every prune mode.
InitRerun ==
  /\ prunedata \in {"0", "r", "s", "e"}
  /\ bestquality = TRUE
  /\ timetol = -1
  /\ starttime = HPTMODULUS \div 2
  /\ endtime = Sec(1)
  /\ splitboundary = "0"
  /\ selections = <<>>
  /\ stagelength = 0
  /\ infile \in SeqsUpTo(RerunMsrs, MaxRerunRecs)
  /\ Start
  /\ SingleOutput

\* The record ms_readmsr reads from the bytes of a record written: the
\* header of the record they come from, with the start time and the number
\* of samples they were packed with.
MsrOf(bytes) ==
  [infile[bytes.offset] EXCEPT !.starttime = bytes.starttime,
                               !.samplecnt = bytes.samplecnt]

\* The records of the output file.
OutputRecords == [k \in 1..Len(written) |-> MsrOf(written[k].bytes)]

\* The output file of a run that ended well is made the input file of a
\* second run with the same options.
Rerun ==
  /\ phase = "done"
  /\ run = 1
  /\ exitcode = 0
  /\ outputfile
  /\ \A k \in 1..Len(written) : HeaderOK(written[k].bytes)
  /\ run' = 2
  /\ infile' = OutputRecords
  /\ fpos' = 0
  /\ stageoffset' = 0
  /\ stagefull' = FALSE
  /\ mstl' = <<>>
  /\ phase' = "read"
  /\ written' = <<>>
  /\ recordbuf' = ZeroBytes
  /\ wid' = 0
  /\ errflag' = 0
  /\ infp' = FALSE
  /\ totalrecsout' = 0
  /\ totalbytesout' = 0
  /\ replaced' = <<>>
  /\ exitcode' = -1
  /\ wlog' = <<>>
  /\ UNCHANGED <<prunedata, bestquality, timetol, starttime, endtime,
                 splitboundary, selections, stagelength, outputfile,
                 replaceinput, fault, sortvars, dsvars>>

NextRerun == Next \/ Rerun

SpecRerun == InitRerun /\ [][NextRerun]_vars

\* Number of times m is an element of the sequence s.
Count(s, m) == Cardinality({ k \in 1..Len(s) : s[k] = m })

-----------------------------------------------------------------------------
(* Non-contributing Records                                                *)

\* The Records of the places <<i, j, n>> of the record maps that are marked
\* non-contributing.
Marked ==
  { p \in UNION { UNION { { <<i, j, n>> : n \in 1..Len(mstl[i].segs[j].recmap) } :
                          j \in 1..Len(mstl[i].segs) } : i \in 1..Len(mstl) } :
      mstl[p[1]].segs[p[2]].recmap[p[3]].reclen = 0 }

\* The trace list without its non-contributing Records.
Strip(tl) ==
  [i \in 1..Len(tl) |->
     [tl[i] EXCEPT !.segs =
        [j \in 1..Len(tl[i].segs) |->
           [tl[i].segs[j] EXCEPT !.recmap =
              SelectSeq(tl[i].segs[j].recmap, LAMBDA r : r.reclen # 0)]]]]

\* The places <<i, j>> of the segments of a trace list.
SegPlaces(tl) ==
  UNION { { <<i, j>> : j \in 1..Len(tl[i].segs) } : i \in 1..Len(tl) }

\* Once prunetraces has run, the marked Records add nothing to the coverage
\* of any segment, are never the first or last Record reconcile_tracetimes
\* reads, and another pass of prunetraces leaves every one of them as it is.
MarkedSkipped ==
  (phase \in {"reconcile", "write"} /\ prunedata \in {"r", "s"}) =>
    /\ \A p \in SegPlaces(mstl) :
         /\ findcoverage(mstl, p[1], p[2]) = findcoverage(Strip(mstl), p[1], p[2])
         /\ ReconcileSeg(mstl[p[1]].segs[p[2]]).starttime =
              ReconcileSeg(Strip(mstl)[p[1]].segs[p[2]]).starttime
         /\ ReconcileSeg(mstl[p[1]].segs[p[2]]).endtime =
              ReconcileSeg(Strip(mstl)[p[1]].segs[p[2]]).endtime
    /\ \A p \in Marked :
         prunetraces(mstl)[p[1]].segs[p[2]].recmap[p[3]] =
           mstl[p[1]].segs[p[2]].recmap[p[3]]

\* From the regroup on no write list holds a marked Record, and the write
\* loop handles and writes Records of the write lists only.
MarkedNotWritten ==
  phase \in {"emit", "done"} =>
    /\ \A r \in Contributing : r.reclen # 0
    /\ \A k \in 1..Len(wlog) :
         /\ wlog[k].rec.reclen # 0
         /\ \E r \in Contributing : r.offset = wlog[k].rec.offset
    /\ \A k \in 1..Len(written) :
         /\ written[k].rec.reclen # 0
         /\ \E r \in Contributing : r.offset = written[k].rec.offset

\* A marked Record stays as it is while the record maps exist, and the
\* regroup puts the Records that are not marked, and only those, on the
\* write lists.
MarkedKept ==
  /\ (phase = "reconcile" =>
        \A p \in Marked :
          mstl'[p[1]].segs[p[2]].recmap[p[3]] = mstl[p[1]].segs[p[2]].recmap[p[3]])
  /\ (phase = "write" /\ phase' = "emit" =>
        Contributing' = { r \in MapRecords : r.reclen # 0 })

\* C21: a Record that trimtrace marked non-contributing (reclen = 0) is
\* never made contributing again; from then on it adds nothing to any
\* coverage findcoverage builds, is never the first or last Record of
\* reconcile_tracetimes, is left alone by a later pruning pass, is dropped by
\* the regroup of writetraces and is never written.
C21_MarkedStayOut ==
  /\ [](MarkedSkipped /\ MarkedNotWritten)
  /\ [][MarkedKept]_vars

\* Pruning marked the first Record of a segment that still has a
\* contributing Record, and some segment has a coverage.
C21_Witness ==
  /\ phase = "write"
  /\ prunedata \in {"r", "s"}
  /\ \E p \in SegPlaces(mstl) : FirstContributing(mstl[p[1]].segs[p[2]].recmap) > 1
  /\ \E p \in SegPlaces(mstl) : findcoverage(mstl, p[1], p[2]) # <<>>


-----------------------------------------------------------------------------
(* Pruning and coverage                                                    *)

\* The segment at place p = <<i, j>> of the trace list.
SegAt(p) == mstl[p[1]].segs[p[2]]

\* The segment at place q outranks the segment at place p: the higher
\* quality when best quality is on, otherwise or on a tie of the qualities
\* the longer segment.
Outranks(q, p) ==
  LET c == IF bestquality
             THEN qcompare(mstl[q[1]].dataquality, mstl[p[1]].dataquality)
             ELSE 0
  IN IF c = 0
       THEN (SegAt(q).endtime - SegAt(q).starttime) >=
            (SegAt(p).endtime - SegAt(p).starttime)
       ELSE c = -1

\* The segment at place q is a peer of the segment at place p: another
\* segment of the same channel with a sample rate that is not zero and
\* tolerable against the rate of p.
Peer(q, p) ==
  /\ q # p
  /\ mstl[q[1]].chan = mstl[p[1]].chan
  /\ SegAt(q).samprate # 0
  /\ MS_ISRATETOLERABLE(SegAt(q).samprate, SegAt(p).samprate)

\* The sample times of the data record of Record rec.
SampleTimes(rec) ==
  { rec.starttime + k * HpDelta(Source(rec).samprate) :
      k \in 0..(Source(rec).samplecnt - 1) }

\* Sample time t of Record rec is not emitted: the Record is marked or t
\* lies outside its new bounds.
Dropped(rec, t) ==
  \/ rec.reclen = 0
  \/ rec.newstart # HPTERROR /\ t < rec.newstart
  \/ rec.newend # HPTERROR /\ t > rec.newend

\* Sample time t of a Record of the segment at place p is dominated: within
\* the time tolerance it lies in the effective interval of a contributing
\* Record of a peer segment that outranks p.
Dominated(p, t) ==
  LET tol == HpTimeTol(HpDelta(SegAt(p).samprate))
  IN \E q \in SegPlaces(mstl) :
       /\ Peer(q, p)
       /\ Outranks(q, p)
       /\ \E h \in ContributingOf(SegAt(q).recmap) :
            EffStart(h) - tol <= t /\ t <= EffEnd(h) + tol

\* A run where the only bounds are those of the pruning.
PruningOnly ==
  /\ prunedata \in {"r", "s"}
  /\ starttime = HPTERROR
  /\ endtime = HPTERROR
  /\ selections = <<>>
  /\ splitboundary = "0"

\* C22: after prunetraces with -Pr or -Ps every sample time of an input
\* record that is not emitted, because its Record is marked or the time
\* lies outside the Record's new bounds, lies within the time tolerance in
\* the effective interval of a Record, contributing at the end of the
\* pruning, of a peer segment of higher priority.
C22_OnlyDominatedPruned ==
  (phase = "reconcile" /\ PruningOnly) =>
    \A p \in SegPlaces(mstl) : \A n \in 1..Len(SegAt(p).recmap) :
      \A t \in SampleTimes(SegAt(p).recmap[n]) :
        Dropped(SegAt(p).recmap[n], t) => Dominated(p, t)

\* Pruning dropped a sample time of a Record.
C22_Witness ==
  /\ phase = "reconcile"
  /\ PruningOnly
  /\ \E r \in MapRecords : \E t \in SampleTimes(r) : Dropped(r, t)


-----------------------------------------------------------------------------
(* Coverage runs: two records of two channels and two qualities at 0, 1 and *)
(* 2 Hz, pruned with -Pr or -Ps, with and without -E; and the pruning runs. *)

MaxCovStart == 1    \* latest record start in a coverage run, seconds
MaxCovCnt == 3      \* most samples in a record of a coverage run

CovMsrs ==
  { Msr(ch, q, r, Sec(s), c, "STEIM2", TRUE) :
      ch \in {"BHE", "BHZ"}, q \in {"D", "Q"}, r \in {0, 1, 2},
      s \in 0..MaxCovStart, c \in {1, MaxCovCnt} }

InitCov ==
  /\ prunedata \in {"r", "s"}
  /\ bestquality \in BOOLEAN
  /\ timetol = -1
  /\ starttime = HPTERROR
  /\ endtime = HPTERROR
  /\ splitboundary = "0"
  /\ selections = <<>>
  /\ stagelength = 0
  /\ infile \in [1..2 -> CovMsrs]
  /\ Start
  /\ SingleOutput

SpecCov == (InitCov \/ InitPrune) /\ [][Next]_vars

\* The segment at place q overlaps the segment at place p in time within
\* the time tolerance of p.
Overlaps(q, p) ==
  LET tol == HpTimeTol(HpDelta(SegAt(p).samprate))
  IN /\ SegAt(p).endtime + tol >= SegAt(q).starttime
     /\ SegAt(p).starttime - tol <= SegAt(q).endtime

\* The segment at place q may be taken into the coverage of the segment at
\* place p.
Qualifies(q, p) == Peer(q, p) /\ Overlaps(q, p) /\ Outranks(q, p)

\* The trace list with the record maps emptied of every segment that may
\* not be taken into the coverage of the segment at place p.
OnlyQualifying(p) ==
  [i \in 1..Len(mstl) |->
     [mstl[i] EXCEPT !.segs =
        [j \in 1..Len(mstl[i].segs) |->
           IF Qualifies(<<i, j>>, p) THEN mstl[i].segs[j]
           ELSE [mstl[i].segs[j] EXCEPT !.recmap = <<>>]]]]

\* Coverage entry e is built from contributing Records of the segment at
\* place q.
BuiltFrom(e, q) ==
  /\ e.dataquality = mstl[q[1]].dataquality
  /\ e.samprate = SegAt(q).samprate
  /\ \E r \in ContributingOf(SegAt(q).recmap) : e.starttime = EffStart(r)
  /\ \E r \in ContributingOf(SegAt(q).recmap) : e.endtime = EffEnd(r)

\* C23: every entry of the coverage findcoverage returns for a target
\* segment is built from contributing Records of a segment that is not the
\* target, has the target's channel, has a non-zero sample rate tolerable
\* against the target's, overlaps the target in time within the tolerance
\* and outranks it; the Records of any other segment change neither the
\* coverage nor what trimtrace does to the target's Records.
C23_CoverageMembership ==
  phase \in {"prune", "reconcile"} =>
    \A p \in SegPlaces(mstl) :
      /\ \A k \in 1..Len(findcoverage(mstl, p[1], p[2])) :
           \E q \in SegPlaces(mstl) :
             Qualifies(q, p) /\ BuiltFrom(findcoverage(mstl, p[1], p[2])[k], q)
      /\ findcoverage(OnlyQualifying(p), p[1], p[2]) = findcoverage(mstl, p[1], p[2])
      /\ trimtrace(SegAt(p), findcoverage(OnlyQualifying(p), p[1], p[2])) =
           trimtrace(SegAt(p), findcoverage(mstl, p[1], p[2]))

\* A target segment with a coverage, next to a segment of its channel that
\* overlaps it in time and may not be taken into the coverage.
C23_Witness ==
  /\ phase = "prune"
  /\ \E p \in SegPlaces(mstl) :
       /\ findcoverage(mstl, p[1], p[2]) # <<>>
       /\ \E q \in SegPlaces(mstl) :
            /\ q # p
            /\ mstl[q[1]].chan = mstl[p[1]].chan
            /\ Overlaps(q, p)
            /\ ~ Qualifies(q, p)
            /\ SegAt(q).recmap # <<>>


-----------------------------------------------------------------------------
(* Regroup                                                                 *)

\* The places <<i, n>> of the Records of the write lists of a trace list.
ListPlaces(tl) ==
  UNION { { <<i, n>> : n \in 1..Len(tl[i].list) } : i \in 1..Len(tl) }

\* The places <<i, j, n>> of the Records of the record maps of a trace list.
MapPlaces(tl) ==
  UNION { UNION { { <<i, j, n>> : n \in 1..Len(tl[i].segs[j].recmap) } :
                  j \in 1..Len(tl[i].segs) } : i \in 1..Len(tl) }

\* The first of the consecutive IDs with the channel of ID i.
FirstOfChannel(tl, i) ==
  CHOOSE g \in 1..i :
    /\ \A k \in g..i : tl[k].chan = tl[i].chan
    /\ (g > 1 => tl[g - 1].chan # tl[i].chan)

\* The ID whose write list takes the Records of ID i.
ListOf(tl, i) == IF prunedata # "0" THEN FirstOfChannel(tl, i) ELSE i

\* The regroup step: every contributing Record of a record map is once on
\* the write list of the ID of its group and on no other list, and the
\* write lists hold nothing else.
RegroupConserves ==
  (phase = "write" /\ phase' = "emit") =>
    /\ \A p \in MapPlaces(mstl) :
         LET r == mstl[p[1]].segs[p[2]].recmap[p[3]]
         IN r.reclen > 0 =>
              /\ Cardinality({ l \in ListPlaces(mstl') :
                                 mstl'[l[1]].list[l[2]] = r }) =
                   Cardinality({ m \in MapPlaces(mstl) :
                                   mstl[m[1]].segs[m[2]].recmap[m[3]] = r })
              /\ \A l \in ListPlaces(mstl') :
                   mstl'[l[1]].list[l[2]] = r => l[1] = ListOf(mstl, p[1])
    /\ \A l \in ListPlaces(mstl') :
         \E p \in MapPlaces(mstl) :
           /\ mstl[p[1]].segs[p[2]].recmap[p[3]] = mstl'[l[1]].list[l[2]]
           /\ mstl'[l[1]].list[l[2]].reclen > 0

\* After the regroup no segment has a record map, an ID has a write list
\* exactly when it is the first of its group, and the IDs of a group share
\* the list of the first.
Regrouped ==
  phase \in {"emit", "done"} =>
    /\ \A p \in SegPlaces(mstl) : ~ SegAt(p).hasmap /\ SegAt(p).recmap = <<>>
    /\ \A i \in 1..Len(mstl) :
         /\ mstl[i].haslist <=> (ListOf(mstl, i) = i)
         /\ (~ mstl[i].haslist => mstl[i].list = <<>>)

\* A write pass with no failing I/O operation and no Record skipped or
\* failing in trimrecord.
CleanPass ==
  /\ fault = NoFault
  /\ archiveroot = <<>>
  /\ \A k \in 1..Len(wlog) : wlog[k].rv = 0 /\ wlog[k].failed = "none"

\* When the run is over every Record of every write list was written once.
EachWrittenOnce ==
  (phase = "done" /\ exitcode = 0 /\ CleanPass) =>
    /\ \A l \in ListPlaces(mstl) :
         Cardinality({ k \in 1..Len(wlog) :
                         /\ wlog[k].id = l[1]
                         /\ wlog[k].n = l[2]
                         /\ wlog[k].counted
                         /\ wlog[k].nout = NumSinks }) = 1
    /\ Len(wlog) = Cardinality(ListPlaces(mstl))
    /\ Len(written) = (IF outputfile THEN Len(wlog) ELSE 0)
    /\ \A k \in 1..Len(written) : written[k].rec.offset = wlog[k].rec.offset

-----------------------------------------------------------------------------
(* Order of the output                                                     *)

\* The entries of the write loop for the Records of the list of ID i that
\* were written to a file, in the order they were written.
WrittenOf(i) == SelectSeq(wlog, LAMBDA e : e.id = i /\ e.nout > 0)

\* C25: in every run, with any prune mode, the records of each write list
\* are written in non-decreasing order of effective start time.
C25_TimeOrderedOutput ==
  \A i \in 1..Len(mstl) :
    \A k \in 1..(Len(WrittenOf(i)) - 1) :
      EffStart(WrittenOf(i)[k].rec) <= EffStart(WrittenOf(i)[k + 1].rec)

\* Two records of one write list were written.
C25_Witness ==
  /\ phase = "done"
  /\ \E i \in 1..Len(mstl) : Len(WrittenOf(i)) >= 2


-----------------------------------------------------------------------------
(* Trim arithmetic                                                         *)

\* The number of samples of the data record of Record rec with a time, counted
\* from the record's start, before the new start.
FrontDrop(rec) ==
  IF rec.newstart = HPTERROR THEN 0
  ELSE Cardinality({ k \in 0..(Source(rec).samplecnt - 1) :
                       rec.starttime + k * HpDelta(Source(rec).samprate)
                         < rec.newstart })

\* The number of the samples left by the front trim with a time, counted
\* back from the record's end, after the new end.
BackDrop(rec) ==
  IF rec.newend = HPTERROR THEN 0
  ELSE Cardinality({ j \in 0..(Source(rec).samplecnt - FrontDrop(rec) - 1) :
                       rec.endtime - j * HpDelta(Source(rec).samprate)
                         > rec.newend })

\* trimrecord got as far as the trim for the entry: the bounds are valid
\* and the record can be unpacked and packed.
TrimApplies(e) ==
  /\ e.trim
  /\ ~ BoundsInsane(e.rec)
  /\ Source(e.rec).Blkt1000
  /\ Source(e.rec).encoding \in SupportedEncodings
  /\ Source(e.rec).dataok

\* C26: trimrecord, for a record of n samples with valid bounds, drops from
\* the front exactly the samples with a time starttime + k * hpdelta before
\* newstart and from the back exactly the samples with a time
\* endtime - j * hpdelta after newend, sets the start to the time of the first
\* sample kept, and returns -1 without packing exactly when the front trim
\* or the back trim of the samples left would drop every sample; with a
\* sample period of zero it drops no sample.
C26_TrimArithmetic ==
  \A x \in 1..Len(wlog) :
    LET e == wlog[x]
        n == Source(e.rec).samplecnt
        hpdelta == HpDelta(Source(e.rec).samprate)
        all == FrontDrop(e.rec) >= n \/
               BackDrop(e.rec) >= n - FrontDrop(e.rec)
    IN TrimApplies(e) =>
         IF hpdelta = 0
           THEN /\ e.rv = 0
                /\ e.bytes.first = 1
                /\ e.bytes.samplecnt = n
                /\ e.bytes.starttime = e.rec.starttime
           ELSE /\ (e.rv = -1 <=> all)
                /\ (e.rv = -1 => e.nout = 0)
                /\ (~ all =>
                      /\ e.rv = 0
                      /\ e.bytes.first = 1 + FrontDrop(e.rec)
                      /\ e.bytes.samplecnt = n - FrontDrop(e.rec) - BackDrop(e.rec)
                      /\ e.bytes.starttime =
                           e.rec.starttime + FrontDrop(e.rec) * hpdelta)

\* A record was trimmed at both ends and written with the samples left.
C26_Witness ==
  \E x \in 1..Len(wlog) :
    /\ TrimApplies(wlog[x])
    /\ wlog[x].rv = 0
    /\ FrontDrop(wlog[x].rec) > 0
    /\ BackDrop(wlog[x].rec) > 0
    /\ wlog[x].nout = 1


-----------------------------------------------------------------------------
(* The frame of the pruner                                                 *)

\* Record r2 is Record r1 but for reclen, newstart and newend.
SameButMarks(r1, r2) ==
  [r2 EXCEPT !.reclen = r1.reclen, !.newstart = r1.newstart,
             !.newend = r1.newend] = r1

\* Segment s2 is segment s1 but for the reclen, newstart and newend of the
\* Records of its map: same fields, same map length and order.
SameButRecordMarks(s1, s2) ==
  /\ [s2 EXCEPT !.recmap = s1.recmap] = s1
  /\ Len(s2.recmap) = Len(s1.recmap)
  /\ \A n \in 1..Len(s1.recmap) : SameButMarks(s1.recmap[n], s2.recmap[n])

\* One call of trimtrace on the segment at place p with its coverage.
TrimtraceFrame(p) ==
  LET coverage == findcoverage(mstl, p[1], p[2])
  IN coverage # <<>> => SameButRecordMarks(SegAt(p), trimtrace(SegAt(p), coverage))

\* The pruning pass, every call of trimtrace it makes taken together.
PruneFrame ==
  phase = "prune" /\ phase' = "reconcile" =>
    /\ Len(mstl') = Len(mstl)
    /\ \A i \in 1..Len(mstl) :
         /\ [mstl'[i] EXCEPT !.segs = mstl[i].segs] = mstl[i]
         /\ Len(mstl'[i].segs) = Len(mstl[i].segs)
         /\ \A j \in 1..Len(mstl[i].segs) :
              SameButRecordMarks(mstl[i].segs[j], mstl'[i].segs[j])

\* C27: a call of trimtrace changes only the reclen, newstart and newend of
\* the Records of the target segment's map: every other segment, the
\* starttime, endtime, offset, selectstart and selectend of every Record,
\* the order of the maps and the starttime and endtime of every segment
\* stay as they are.
C27_PrunerFrame ==
  /\ [](phase = "prune" => \A p \in SegPlaces(mstl) : TrimtraceFrame(p))
  /\ [][PruneFrame]_vars

\* Pruning, in a run without time windows, selections or splitting, has
\* marked one Record and bounded another of a segment.
C27_Witness ==
  /\ phase = "reconcile"
  /\ starttime = HPTERROR /\ endtime = HPTERROR
  /\ splitboundary = "0" /\ selections = <<>>
  /\ \E p \in SegPlaces(mstl) :
       \E n, k \in 1..Len(SegAt(p).recmap) :
         /\ SegAt(p).recmap[n].reclen = 0
         /\ SegAt(p).recmap[k].reclen # 0
         /\ SegAt(p).recmap[k].newstart # HPTERROR \/ SegAt(p).recmap[k].newend # HPTERROR


-----------------------------------------------------------------------------
(* The order of the quality codes                                          *)

\* The data quality codes and their place in the order R < D < Q < M.
QualityCodes == {"R", "D", "Q", "M"}

QualityRank(q) == CASE q = "R" -> 1 [] q = "D" -> 2 [] q = "Q" -> 3 [] q = "M" -> 4

\* The trace list with the record maps of every segment but the one at
\* place q emptied.
Alone(q) ==
  [i \in 1..Len(mstl) |->
     [mstl[i] EXCEPT !.segs =
        [j \in 1..Len(mstl[i].segs) |->
           IF <<i, j>> = q THEN mstl[i].segs[j]
           ELSE [mstl[i].segs[j] EXCEPT !.recmap = <<>>]]]]

\* The Records of the segment at place q prune the segment at place p:
\* trimtrace marks or bounds a Record of p against the coverage q gives.
PrunedBy(q, p) ==
  trimtrace(SegAt(p), findcoverage(Alone(q), p[1], p[2])) # SegAt(p)

\* The segments at places p and q are of one channel and overlap, and their
\* IDs differ in quality.
RivalQualities(q, p) ==
  /\ q # p
  /\ mstl[q[1]].chan = mstl[p[1]].chan
  /\ mstl[q[1]].dataquality # mstl[p[1]].dataquality
  /\ Overlaps(q, p)

\* C28: of two different quality codes exactly one is the greater for
\* qcompare, whichever is given first, in the order R < D < Q < M; so in
\* findcoverage two overlapping segments of different quality never both
\* outrank each other, and never both prune each other's Records.
C28_QualityOrder ==
  /\ \A q1, q2 \in QualityCodes :
       /\ q1 # q2 => /\ qcompare(q1, q2) \in {-1, 1}
                     /\ qcompare(q2, q1) = - qcompare(q1, q2)
       /\ qcompare(q1, q2) = 1 <=> QualityRank(q1) < QualityRank(q2)
       /\ qcompare(q1, q2) = 0 <=> q1 = q2
  /\ phase \in {"prune", "reconcile"} =>
       \A p, q \in SegPlaces(mstl) :
         RivalQualities(q, p) =>
           /\ ~ (Outranks(q, p) /\ Outranks(p, q))
           /\ ~ (PrunedBy(q, p) /\ PrunedBy(p, q))

\* Two overlapping segments of one channel and different quality, of which
\* one prunes the other, before the pruning pass.
C28_Witness ==
  /\ phase = "prune"
  /\ bestquality
  /\ \E p, q \in SegPlaces(mstl) :
       /\ RivalQualities(q, p)
       /\ PrunedBy(q, p)


-----------------------------------------------------------------------------
(* Splitting and the end bound                                             *)

\* The strictest end time falls inside the data record of Record rec.
EndInside(rec) ==
  /\ StrictestEnd(rec) # HPTERROR
  /\ StrictestEnd(rec) >= rec.starttime
  /\ StrictestEnd(rec) < rec.endtime

\* C29: with -Ps or -Pe, an end time T (global or of the selection) inside
\* an input record and splitting on a boundary, every Record made for the
\* input record at ingest has an effective end not after T and bounds with
\* newstart <= newend.
C29_SplitKeepsEndBound ==
  (phase \in {"prune", "reconcile"} /\ prunedata \in {"s", "e"} /\ splitboundary # "0") =>
    \A rec \in MapRecords :
      EndInside(rec) =>
        /\ EffEnd(rec) <= StrictestEnd(rec)
        /\ (rec.newstart # HPTERROR /\ rec.newend # HPTERROR =>
              rec.newstart <= rec.newend)

\* An input record with the end time inside it was split at ingest.
C29_Witness ==
  /\ phase \in {"prune", "reconcile"}
  /\ prunedata \in {"s", "e"}
  /\ splitboundary # "0"
  /\ \E r1, r2 \in MapRecords :
       /\ r1.offset = r2.offset
       /\ r1 # r2
       /\ EndInside(r1)


-----------------------------------------------------------------------------
(* The exit status and the place of a failing write list                   *)

\* The write of Record k of the log raised a continuation error.
ContinuationError(k) == wlog[k].errflag = 2

\* The write list of entry k of the log is the last one with Records.
LastList(k) == \A i \in (wlog[k].id + 1)..Len(mstl) : ~ HasRecords(i)

\* C30: the value writetraces returns after a continuation error (a record
\* that cannot be unpacked for trimming or for the archives) does not depend
\* on the place of the failing write list: it is 1, as for a failing list
\* that is the last one, also when further write lists follow.
C30_ExitIndependentOfPlace ==
  phase = "done" =>
    \A k \in 1..Len(wlog) : ContinuationError(k) => exitcode = 1

\* A run has finished in which a write list with a continuation error was
\* followed by the write list of a later ID.
C30_Witness ==
  /\ phase = "done"
  /\ \E k \in 1..Len(wlog) :
       /\ ContinuationError(k)
       /\ ~ LastList(k)
       /\ \E j \in (k + 1)..Len(wlog) : wlog[j].id > wlog[k].id

====
